---- MODULE Spec2Model ----
(***************************************************************************)
(* Model of the financial-analysis agent:                                  *)
(*   - get_buy_sell_recommendation (src/agentic-rag.py): ordered fallback  *)
(*     over CoinMarketCap, TradingView and Yahoo Finance and the consensus *)
(*     computed when CoinMarketCap is the base;                            *)
(*   - the /api/chat endpoint and run_with_timeout (src/backend/app.py);   *)
(*   - compare_stocks (src/agentic-rag.py) and compare_cryptos             *)
(*     (src/financial_tools.py).                                           *)
(* Python dicts are TLA+ functions over their key sets; a Python str that  *)
(* a function returns instead of a dict is the record [str |-> text].      *)
(***************************************************************************)
EXTENDS Integers, Sequences, FiniteSets, TLC

VARIABLES
    \* ---- get_buy_sell_recommendation ----
    rpc,                \* position inside get_buy_sell_recommendation
    risk_tolerance,     \* the risk_tolerance argument
    cmcEnv,             \* what the CoinMarketCap provider will answer
    yfEnv,              \* what the Yahoo-based crypto advice will answer
    cmc_recommendation, \* local cmc_recommendation
    tv_analysis,        \* local tv_analysis
    yf_analysis,        \* local yf_analysis
    result,             \* the returned value
    calls,              \* the source calls made so far, in order
    \* ---- /api/chat ----
    cpc,                \* position inside chat() / run_with_timeout
    is_windows,         \* platform.system() == 'Windows'
    body,               \* the request body
    agentBehaviour,     \* how financial_agent.chat behaves for this request
    alarm,              \* SIGALRM state: "off", "armed", "fired"
    agentQueries,       \* the queries handed to financial_agent.chat
    caught,             \* what get_agent_response's except clause caught
    response,           \* the HTTP response
    \* ---- compare_stocks / compare_cryptos ----
    kpc,                \* position inside the comparison
    fn,                 \* which comparison runs
    symbols,            \* the batch
    outcome,            \* per Yahoo symbol: what fetching its price history does
    idx,                \* loop index
    results,            \* local results
    performance_data,   \* local performance_data (compare_cryptos)
    volatility_data,    \* local volatility_data (compare_cryptos)
    returned,           \* the value returned by the comparison
    \* ---- generate_investment_advice / generate_crypto_investment_advice ----
    apc,                \* position inside the scorer
    asset,              \* "equity": generate_investment_advice, "crypto": the crypto scorer
    history,            \* what fetching the price history gives (local data)
    analysis,           \* local analysis
    tech_signals,       \* local tech_signals
    fund_signals,       \* local fund_signals
    tech_weight_sum,    \* local tech_weight_sum
    fund_weight_sum,    \* local fund_weight_sum
    tech_normalized,    \* local tech_normalized
    fund_normalized,    \* local fund_normalized
    combined_score,     \* local combined_score
    potential_upside,   \* local potential_upside
    potential_downside, \* local potential_downside
    advice,             \* the value the scorer returns
    \* ---- the CoinMarketCap adapter entry points ----
    mpc,                \* position inside the entry point
    entry,              \* which entry point runs
    api_key,            \* whether an API key is given or configured
    provider,           \* per endpoint: what the provider answers
    responses,          \* the endpoint results held in locals (info, quotes, ...)
    cmc_out,            \* what the entry point returned or raised
    \* ---- crypto symbol clean-up ----
    npc,                \* position along the clean-ups of one symbol
    raw_symbol,         \* the symbol argument of get_buy_sell_recommendation
    clean_symbol,       \* local clean_symbol of get_buy_sell_recommendation
    cmc_symbol,         \* local symbol of get_cmc_investment_recommendation
    tv_symbol,          \* local tv_symbol of get_tradingview_multi_timeframe_analysis
    \* ---- comprehensive_ticker_comparison ----
    tpc,                \* position inside comprehensive_ticker_comparison
    tickers,            \* the tickers argument, a list
    asset_type,         \* the asset_type argument, then the detected type
    closeOut,           \* per ticker: what history(period)["Close"] does
    comparison_data,    \* local comparison_data
    data_source,        \* local data_source (crypto)
    key_metrics,        \* local key_metrics (stocks)
    price_data,         \* local price_data of the correlation block
    correlation_matrix, \* local correlation_matrix
    volatility_metrics, \* local volatility_metrics (crypto)
    ctc_results,        \* local results, and at the end the value returned
    \* ---- the technical signals of extract_financial_insights / analyze_crypto ----
    ipc,                \* position inside the analysis
    series,             \* the last two rows of the indicator columns
    golden_cross,       \* local golden_cross
    death_cross,        \* local death_cross
    macd_signal,        \* local macd_signal
    ind_analysis,       \* the analysis returned
    ind_signals,        \* the tech_signals the scorer builds from it
    \* ---- get_tradingview_crypto_analysis ----
    vpc,                \* position: the pair scanned last
    tva_raw,            \* the symbol argument
    interval,           \* the interval argument
    scanEnv,            \* per pair: what its scan at the requested interval gives
    tva_requests,       \* the scans requested so far, in order
    tva_tv_symbol,      \* local tv_symbol
    tva_result          \* local result, at the end the value returned


recVars == <<rpc, risk_tolerance, cmcEnv, yfEnv, cmc_recommendation,
             tv_analysis, yf_analysis, result, calls>>
chatVars == <<cpc, is_windows, body, agentBehaviour, alarm, agentQueries,
              caught, response>>
cmpVars == <<kpc, fn, symbols, outcome, idx, results, performance_data,
             volatility_data, returned>>
advVars == <<apc, asset, history, analysis, tech_signals, fund_signals, tech_weight_sum,
             fund_weight_sum, tech_normalized, fund_normalized, combined_score,
             potential_upside, potential_downside, advice>>
cmcapiVars == <<mpc, entry, api_key, provider, responses, cmc_out>>
symVars == <<npc, raw_symbol, clean_symbol, cmc_symbol, tv_symbol>>
ctcVars == <<tpc, tickers, asset_type, closeOut, comparison_data, data_source,
             key_metrics, price_data, correlation_matrix, volatility_metrics,
             ctc_results>>
indVars == <<ipc, series, golden_cross, death_cross, macd_signal, ind_analysis,
             ind_signals>>
tvaVars == <<vpc, tva_raw, interval, scanEnv, tva_requests, tva_tv_symbol, tva_result>>
vars == <<recVars, chatVars, cmpVars, advVars, cmcapiVars, symVars, ctcVars, indVars, tvaVars>>

\* A value no Python object has: an unset local.
None == [none |-> TRUE]

\* d[k] = v on a Python dict.
DictSet(d, k, v) == [x \in (DOMAIN d) \cup {k} |-> IF x = k THEN v ELSE d[x]]

\* isinstance(v, dict)
IsDict(v) == "str" \notin DOMAIN v /\ "none" \notin DOMAIN v

\* isinstance(v, dict) and "error" not in v
IsOkDict(v) == IsDict(v) /\ "error" \notin DOMAIN v

(***************************************************************************)
(* Recommendation labels and the substring tests made on them.             *)
(***************************************************************************)
CmcLabels == {"Strong Buy", "Buy", "Mild Buy", "Hold", "Mild Sell", "Sell", "Strong Sell"}
YfLabels == {"Strong Buy", "Buy", "Mild Buy", "Hold", "Sell", "Strong Sell"}

\* "Buy" in r
ContainsBuy(r) == r \in {"Strong Buy", "Buy", "Mild Buy"}
\* "Sell" in r
ContainsSell(r) == r \in {"Strong Sell", "Sell", "Mild Sell"}

RiskTolerances == {"low", "moderate", "high"}

\* risk_tolerance arguments of get_buy_sell_recommendation: the documented
\* three, one of them capitalised, and a word that is none of them
RiskArguments == RiskTolerances \cup {"Low", "medium"}

\* str.lower() on the arguments above (the others are in lower case already)
Lower(s) == IF s = "Low" THEN "low" ELSE s

\* coinmarketcap_api.py, lines 561, 584, 608: the branch of the label ladder
CmcRiskClass(rt) ==
    IF rt = "low" THEN "low" ELSE IF rt = "moderate" THEN "moderate" ELSE "high"

\* financial_tools.py, lines 1107-1112: the branch of the technical weight
YahooRiskClass(rt) ==
    IF Lower(rt) = "low" THEN "low" ELSE IF Lower(rt) = "high" THEN "high" ELSE "moderate"

\* period = "3mo" if low else "6mo" if moderate else "1y"
PeriodFor(rt) == IF rt = "low" THEN "3mo" ELSE IF rt = "moderate" THEN "6mo" ELSE "1y"

(***************************************************************************)
(* CoinMarketCap: get_coinmarketcap_investment_recommendation wrapping     *)
(* get_cmc_investment_recommendation.                                      *)
(***************************************************************************)
\* technical_score values the provider data can add up to (a sample that
\* reaches every label under every risk tolerance)
TechnicalScores == {-6, -4, -2, 0, 2, 4, 6}
\* market_cap values above, on, between and below the $50B and $5B thresholds
\* (in $B)
MarketCaps == {100, 50, 20, 5, 2}
\* percent_change_30d of the quote (even and non-zero, so that the projections
\* below are whole numbers and not None)
PercentChanges30d == {20}

Abs(x) == IF x < 0 THEN 0 - x ELSE x

CmcEnvs ==
    {[kind |-> "no_key"], [kind |-> "quote_error"], [kind |-> "raise"]}
    \cup {[kind |-> "ok", technical_score |-> t, market_cap |-> m,
             percent_change_30d |-> c] :
            t \in TechnicalScores, m \in MarketCaps, c \in PercentChanges30d}

LowCapThreshold == 50
ModerateCapThreshold == 5

\* mutant: the low-risk ladder without the market-cap conditions
CmcLabelAndConfidenceUngated(rt, t, cap) ==
    IF t >= 6 THEN <<"Strong Buy", 90>>
    ELSE IF t >= 4 THEN <<"Buy", 70>>
    ELSE IF t <= -6 THEN <<"Strong Sell", 85>>
    ELSE IF t <= -4 THEN <<"Sell", 65>>
    ELSE IF t >= 2 THEN <<"Mild Buy", 55>>
    ELSE IF t <= -2 THEN <<"Mild Sell", 55>>
    ELSE <<"Hold", 60>>

\* lines 557-628: recommendation and confidence_score from technical_score,
\* risk_tolerance and the market-cap risk profile
CmcLabelAndConfidence(rt, t, cap) ==
    LET low == cap > LowCapThreshold
        moderate == cap > ModerateCapThreshold
    IN  IF CmcRiskClass(rt) = "low" THEN
            IF t >= 6 /\ low THEN <<"Strong Buy", 90>>
            ELSE IF t >= 4 /\ low THEN <<"Buy", 70>>
            ELSE IF t <= -6 THEN <<"Strong Sell", 85>>
            ELSE IF t <= -4 THEN <<"Sell", 65>>
            ELSE IF t >= 2 /\ moderate THEN <<"Mild Buy", 55>>
            ELSE IF t <= -2 THEN <<"Mild Sell", 55>>
            ELSE <<"Hold", 60>>
        ELSE IF CmcRiskClass(rt) = "moderate" THEN
            IF t >= 5 THEN <<"Strong Buy", 85>>
            ELSE IF t >= 3 THEN <<"Buy", 70>>
            ELSE IF t <= -5 THEN <<"Strong Sell", 80>>
            ELSE IF t <= -3 THEN <<"Sell", 65>>
            ELSE IF t >= 1 THEN <<"Mild Buy", 55>>
            ELSE IF t <= -1 THEN <<"Mild Sell", 55>>
            ELSE <<"Hold", 60>>
        ELSE
            IF t >= 4 THEN <<"Strong Buy", 80>>
            ELSE IF t >= 2 THEN <<"Buy", 65>>
            ELSE IF t <= -4 THEN <<"Strong Sell", 75>>
            ELSE IF t <= -2 THEN <<"Sell", 60>>
            ELSE IF t >= 1 THEN <<"Mild Buy", 55>>
            ELSE IF t <= -1 THEN <<"Mild Sell", 55>>
            ELSE <<"Hold", 60>>

\* lines 641-661 with volatility_factor = abs(percent_change_30d) / 30:
\* volatility_factor * 30 * (1 + technical_score * 0.5), or volatility_factor * 15
CmcPotentialUpside(pc30, t) ==
    IF t > 0 THEN (Abs(pc30) * (2 + t)) \div 2 ELSE Abs(pc30) \div 2
CmcPotentialDownside(pc30, t) ==
    IF t < 0 THEN (Abs(pc30) * (2 + Abs(t))) \div 2 ELSE Abs(pc30) \div 2

\* get_cmc_investment_recommendation: the quotes error dict, or the result
\* dict (the fields the consensus code and its callers read)
get_cmc_investment_recommendation(env, rt) ==
    IF env.kind = "quote_error" THEN [error |-> "No quote data found"]
    ELSE LET lc == CmcLabelAndConfidence(rt, env.technical_score, env.market_cap)
         IN  [symbol |-> "SYM",
              recommendation |-> lc[1],
              confidence_score |-> lc[2],
              technical_score |-> env.technical_score,
              risk_tolerance |-> rt,
              market_metrics |-> [market_cap |-> env.market_cap],
              potential_upside |-> CmcPotentialUpside(env.percent_change_30d, env.technical_score),
              potential_downside |-> CmcPotentialDownside(env.percent_change_30d, env.technical_score)]

\* the wrapper: any exception (the missing API key raised by
\* CoinMarketCapAPI.__init__, a failure inside the computation) becomes a str
get_coinmarketcap_investment_recommendation(env, rt) ==
    IF env.kind \in {"no_key", "raise"}
    THEN [str |-> "Error generating investment recommendation"]
    ELSE get_cmc_investment_recommendation(env, rt)

(***************************************************************************)
(* TradingView: get_tradingview_multi_timeframe_crypto_analysis wrapping   *)
(* get_tradingview_multi_timeframe_analysis.                               *)
(***************************************************************************)
Timeframes == {"1d", "4h", "1h", "15m"}
\* the order in which the timeframes dict is built and iterated
TfOrder == <<"1d", "4h", "1h", "15m">>

SignalTypes == {"bullish", "bearish", "neutral"}
\* the interpreted signals one scan can carry (by their "signal" field)
ScanSignalChoices == {<<"bullish">>, <<"bearish">>}

\* what one scanner request does: raises (an exception that is no
\* RequestException), answers an error, or answers data
ScanEnvs ==
    {[kind |-> "raise"], [kind |-> "error"]}
    \cup {[kind |-> "ok", signals |-> s] : s \in ScanSignalChoices}

CountSig(s, t) == Cardinality({i \in 1..Len(s) : s[i] = t})

\* TradingViewAPI.get_crypto_technical_analysis, lines 203-227
ScanSentiment(s) ==
    LET bullish_count == CountSig(s, "bullish")
        bearish_count == CountSig(s, "bearish")
        neutral_count == CountSig(s, "neutral")
    IN  IF bullish_count > bearish_count + neutral_count THEN "Strong Buy"
        ELSE IF bullish_count > bearish_count THEN "Buy"
        ELSE IF bearish_count > bullish_count + neutral_count THEN "Strong Sell"
        ELSE IF bearish_count > bullish_count THEN "Sell"
        ELSE "Neutral"

get_crypto_technical_analysis(env) ==
    IF env.kind = "error"
    THEN [error |-> "No data returned for the specified symbol"]
    ELSE [signals |-> env.signals, overall_sentiment |-> ScanSentiment(env.signals)]

RECURSIVE SumSignals(_, _, _)
\* lines 519-525: count the signals of one type over the timeframes without error
SumSignals(timeframes, t, n) ==
    IF n = 0 THEN 0
    ELSE LET tf_analysis == timeframes[TfOrder[n]]
         IN  SumSignals(timeframes, t, n - 1)
             + (IF "error" \notin DOMAIN tf_analysis /\ "signals" \in DOMAIN tf_analysis
                THEN CountSig(tf_analysis.signals, t) ELSE 0)

\* lines 527-537
OverallSentiment(signal_counts) ==
    IF signal_counts.bullish > signal_counts.bearish * 2 THEN "Strong Buy"
    ELSE IF signal_counts.bullish > signal_counts.bearish THEN "Buy"
    ELSE IF signal_counts.bearish > signal_counts.bullish * 2 THEN "Strong Sell"
    ELSE IF signal_counts.bearish > signal_counts.bullish THEN "Sell"
    ELSE "Neutral"

\* get_tradingview_multi_timeframe_analysis on scans that do not raise
get_tradingview_multi_timeframe_analysis(scans) ==
    LET timeframes == [tf \in Timeframes |-> get_crypto_technical_analysis(scans[tf])]
        signal_counts == [t \in SignalTypes |-> SumSignals(timeframes, t, Len(TfOrder))]
    IN  [symbol |-> "SYM",
         timeframes |-> timeframes,
         signal_counts |-> signal_counts,
         overall_sentiment |-> OverallSentiment(signal_counts)]

\* the wrapper: an exception of a scan becomes a str
get_tradingview_multi_timeframe_crypto_analysis(scans) ==
    IF \E tf \in Timeframes : scans[tf].kind = "raise"
    THEN [str |-> "Error retrieving multi-timeframe analysis"]
    ELSE get_tradingview_multi_timeframe_analysis(scans)

(***************************************************************************)
(* Yahoo Finance: get_crypto_investment_advice wrapping                    *)
(* generate_crypto_investment_advice, which returns the advice dict or a   *)
(* str ("Error ...") and never a dict with an "error" key.                 *)
(***************************************************************************)
\* combined_score values (one inside each band of the label mapping)
YfCombinedScores == {-8, -5, -2, 2, 5, 8}

YfEnvs ==
    {[kind |-> "error"]}
    \cup {[kind |-> "ok", combined_score |-> c] : c \in YfCombinedScores}

\* generate_crypto_investment_advice, lines 1163-1178
CryptoRecommendation(score) ==
    IF score > 6 THEN "Strong Buy"
    ELSE IF score > 3 THEN "Buy"
    ELSE IF score > 0 THEN "Mild Buy"
    ELSE IF score > -3 THEN "Hold"
    ELSE IF score > -6 THEN "Sell"
    ELSE "Strong Sell"

\* the technical_signals list of an advice (more than three entries)
YfTechnicalSignals == <<"MA Trend", "RSI", "MACD", "Bollinger Bands">>

\* xs[:n]
Take(xs, n) == SubSeq(xs, 1, IF Len(xs) < n THEN Len(xs) ELSE n)

\* the advice dict of lines 1287-1305 (confidence = abs(combined_score) / 10,
\* reported as round(confidence * 100)), or the error str
get_crypto_investment_advice(env, period, rt) ==
    IF env.kind = "error"
    THEN [str |-> "Error: No data found"]
    ELSE [symbol |-> "SYM-USD",
          recommendation |-> CryptoRecommendation(env.combined_score),
          confidence_score |-> Abs(env.combined_score) * 10,
          technical_signals |-> YfTechnicalSignals,
          combined_score |-> env.combined_score,
          period |-> period,
          risk_tolerance |-> rt]

(***************************************************************************)
(* get_buy_sell_recommendation (src/agentic-rag.py, lines 273-393).        *)
(***************************************************************************)
\* confidence_score of a TradingView-based result
TvBaseConfidence == 65

\* lines 317-326
SourcesAvailable(tv, yf) ==
    1 + (IF IsOkDict(tv) THEN 1 ELSE 0) + (IF IsDict(yf) THEN 1 ELSE 0)

Recommendations(cmc, tv, yf) ==
    <<cmc.recommendation>>
    \o (IF IsOkDict(tv) THEN <<tv.overall_sentiment>> ELSE <<>>)
    \o (IF IsDict(yf) THEN <<yf.recommendation>> ELSE <<>>)

\* lines 330-331
BuyCount(recs) == Cardinality({i \in 1..Len(recs) : ContainsBuy(recs[i])})
SellCount(recs) == Cardinality({i \in 1..Len(recs) : ContainsSell(recs[i])})

\* mutant: "Strong" as soon as two sources agree
ConsensusLabelAlwaysStrong(buy_count, sell_count, sources_available) ==
    IF buy_count >= 2 /\ buy_count > sell_count THEN "Strong consensus to Buy"
    ELSE IF sell_count >= 2 /\ sell_count > buy_count THEN "Strong consensus to Sell"
    ELSE "Mixed signals across sources"

\* lines 334-339
ConsensusLabel(buy_count, sell_count, sources_available) ==
    IF buy_count >= 2 /\ buy_count > sell_count
    THEN (IF buy_count = sources_available
          THEN "Strong consensus to Buy" ELSE "Moderate consensus to Buy")
    ELSE IF sell_count >= 2 /\ sell_count > buy_count
    THEN (IF sell_count = sources_available
          THEN "Strong consensus to Sell" ELSE "Moderate consensus to Sell")
    ELSE "Mixed signals across sources"

\* line 344
AgreementLevel(buy_count, sell_count, sources_available) ==
    IF buy_count = sources_available \/ sell_count = sources_available THEN "High"
    ELSE IF buy_count > sell_count \/ sell_count > buy_count THEN "Moderate"
    ELSE "Low"

\* lines 303-307: the tradingview_analysis annotation
WithTradingView(cmc, tv) ==
    IF IsOkDict(tv)
    THEN DictSet(cmc, "tradingview_analysis",
            [recommendation |-> tv.overall_sentiment,
             timeframes |-> [k \in {tf \in Timeframes : "error" \notin DOMAIN tv.timeframes[tf]}
                               |-> tv.timeframes[k].overall_sentiment]])
    ELSE cmc

\* lines 309-314: the yahoo_finance_analysis annotation
WithYahoo(cmc, yf) ==
    IF IsDict(yf)
    THEN DictSet(cmc, "yahoo_finance_analysis",
            [recommendation |-> yf.recommendation,
             confidence_score |-> yf.confidence_score,
             technical_signals |-> Take(yf.technical_signals, 3)])
    ELSE cmc

\* mutant: a Buy/Sell consensus replaces the base recommendation
WithConsensusOverride(cmc, tv, yf) ==
    LET sources_available == SourcesAvailable(tv, yf)
        recommendations == Recommendations(cmc, tv, yf)
        buy_count == BuyCount(recommendations)
        sell_count == SellCount(recommendations)
        consensus == ConsensusLabel(buy_count, sell_count, sources_available)
    IN  IF sources_available > 1
        THEN DictSet(DictSet(cmc, "recommendation", consensus), "consensus",
                [recommendation |-> consensus,
                 sources |-> sources_available,
                 agreement_level |-> AgreementLevel(buy_count, sell_count, sources_available)])
        ELSE cmc

\* lines 316-345: the consensus annotation
WithConsensus(cmc, tv, yf) ==
    LET sources_available == SourcesAvailable(tv, yf)
        recommendations == Recommendations(cmc, tv, yf)
        buy_count == BuyCount(recommendations)
        sell_count == SellCount(recommendations)
    IN  IF sources_available > 1
        THEN DictSet(cmc, "consensus",
                [recommendation |-> ConsensusLabel(buy_count, sell_count, sources_available),
                 sources |-> sources_available,
                 agreement_level |-> AgreementLevel(buy_count, sell_count, sources_available)])
        ELSE cmc

RECURSIVE TvSignals(_, _)
\* lines 370-378: the signals of the timeframes, in iteration order
TvSignals(tv, n) ==
    IF n = 0 THEN <<>>
    ELSE LET tf == TfOrder[n]
             data == tv.timeframes[tf]
         IN  TvSignals(tv, n - 1)
             \o (IF "signals" \in DOMAIN data
                 THEN [i \in 1..Len(data.signals) |-> [timeframe |-> tf, signal |-> data.signals[i]]]
                 ELSE <<>>)

\* lines 357-367: the result built from the TradingView analysis
TvBaseResult(tv, rt) ==
    [symbol |-> "SYM",
     recommendation |-> tv.overall_sentiment,
     confidence_score |-> TvBaseConfidence,
     risk_tolerance |-> rt,
     technical_signals |-> TvSignals(tv, Len(TfOrder))]

GbsrReturned == {"ret_cmc", "ret_tv", "ret_yf", "ret_none", "ret_exc"}

\* mutant: the CoinMarketCap result is never taken as the base
GbsrCallCmcNeverBase ==
    /\ rpc = "start"
    /\ cmc_recommendation' = get_coinmarketcap_investment_recommendation(cmcEnv, risk_tolerance)
    /\ calls' = Append(calls, "cmc")
    /\ rpc' = "fb_tv"
    /\ UNCHANGED <<risk_tolerance, cmcEnv, yfEnv, tv_analysis, yf_analysis, result,
                   chatVars, cmpVars, advVars, cmcapiVars, symVars, ctcVars, indVars, tvaVars>>

\* line 289, and the test of line 292
GbsrCallCmc ==
    /\ rpc = "start"
    /\ cmc_recommendation' = get_coinmarketcap_investment_recommendation(cmcEnv, risk_tolerance)
    /\ calls' = Append(calls, "cmc")
    /\ rpc' = IF IsOkDict(cmc_recommendation') THEN "enh_tv" ELSE "fb_tv"
    /\ UNCHANGED <<risk_tolerance, cmcEnv, yfEnv, tv_analysis, yf_analysis, result,
                   chatVars, cmpVars, advVars, cmcapiVars, symVars, ctcVars, indVars, tvaVars>>

\* line 296
GbsrEnhCallTv ==
    /\ rpc = "enh_tv"
    /\ \E scans \in [Timeframes -> ScanEnvs] :
          tv_analysis' = get_tradingview_multi_timeframe_crypto_analysis(scans)
    /\ calls' = Append(calls, "tv")
    /\ rpc' = "enh_yf"
    /\ UNCHANGED <<risk_tolerance, cmcEnv, yfEnv, cmc_recommendation, yf_analysis, result,
                   chatVars, cmpVars, advVars, cmcapiVars, symVars, ctcVars, indVars, tvaVars>>

\* lines 299-300
GbsrEnhCallYf ==
    /\ rpc = "enh_yf"
    /\ yf_analysis' = get_crypto_investment_advice(yfEnv, PeriodFor(risk_tolerance), risk_tolerance)
    /\ calls' = Append(calls, "yf")
    /\ rpc' = "enh_merge_tv"
    /\ UNCHANGED <<risk_tolerance, cmcEnv, yfEnv, cmc_recommendation, tv_analysis, result,
                   chatVars, cmpVars, advVars, cmcapiVars, symVars, ctcVars, indVars, tvaVars>>

\* lines 303-307
GbsrEnhMergeTv ==
    /\ rpc = "enh_merge_tv"
    /\ cmc_recommendation' = WithTradingView(cmc_recommendation, tv_analysis)
    /\ rpc' = "enh_merge_yf"
    /\ UNCHANGED <<risk_tolerance, cmcEnv, yfEnv, tv_analysis, yf_analysis, result, calls,
                   chatVars, cmpVars, advVars, cmcapiVars, symVars, ctcVars, indVars, tvaVars>>

\* lines 309-314
GbsrEnhMergeYf ==
    /\ rpc = "enh_merge_yf"
    /\ cmc_recommendation' = WithYahoo(cmc_recommendation, yf_analysis)
    /\ rpc' = "enh_consensus"
    /\ UNCHANGED <<risk_tolerance, cmcEnv, yfEnv, tv_analysis, yf_analysis, result, calls,
                   chatVars, cmpVars, advVars, cmcapiVars, symVars, ctcVars, indVars, tvaVars>>

\* lines 316-345, then the return of line 351
GbsrEnhConsensus ==
    /\ rpc = "enh_consensus"
    /\ cmc_recommendation' = WithConsensus(cmc_recommendation, tv_analysis, yf_analysis)
    /\ result' = cmc_recommendation'
    /\ rpc' = "ret_cmc"
    /\ UNCHANGED <<risk_tolerance, cmcEnv, yfEnv, tv_analysis, yf_analysis, calls,
                   chatVars, cmpVars, advVars, cmcapiVars, symVars, ctcVars, indVars, tvaVars>>

\* lines 347-351: an exception raised inside the enhancement (such as the
\* TimeoutException the SIGALRM handler of the backend raises) is passed over
\* and cmc_recommendation is returned as it is
GbsrEnhRaise ==
    /\ rpc \in {"enh_tv", "enh_yf", "enh_merge_tv", "enh_merge_yf", "enh_consensus"}
    /\ result' = cmc_recommendation
    /\ rpc' = "ret_cmc"
    /\ UNCHANGED <<risk_tolerance, cmcEnv, yfEnv, cmc_recommendation, tv_analysis,
                   yf_analysis, calls,
                   chatVars, cmpVars, advVars, cmcapiVars, symVars, ctcVars, indVars, tvaVars>>

\* lines 354-380
GbsrFbCallTv ==
    /\ rpc = "fb_tv"
    /\ \E scans \in [Timeframes -> ScanEnvs] :
          tv_analysis' = get_tradingview_multi_timeframe_crypto_analysis(scans)
    /\ calls' = Append(calls, "tv")
    /\ IF IsOkDict(tv_analysis')
       THEN /\ result' = TvBaseResult(tv_analysis', risk_tolerance)
            /\ rpc' = "ret_tv"
       ELSE /\ result' = result
            /\ rpc' = "fb_yf"
    /\ UNCHANGED <<risk_tolerance, cmcEnv, yfEnv, cmc_recommendation, yf_analysis,
                   chatVars, cmpVars, advVars, cmcapiVars, symVars, ctcVars, indVars, tvaVars>>

\* lines 383-390
GbsrFbCallYf ==
    /\ rpc = "fb_yf"
    /\ yf_analysis' = get_crypto_investment_advice(yfEnv, PeriodFor(risk_tolerance), risk_tolerance)
    /\ calls' = Append(calls, "yf")
    /\ IF IsDict(yf_analysis')
       THEN /\ result' = yf_analysis'
            /\ rpc' = "ret_yf"
       ELSE /\ result' = [error |-> "Unable to generate buy/sell recommendation from any source"]
            /\ rpc' = "ret_none"
    /\ UNCHANGED <<risk_tolerance, cmcEnv, yfEnv, cmc_recommendation, tv_analysis,
                   chatVars, cmpVars, advVars, cmcapiVars, symVars, ctcVars, indVars, tvaVars>>

\* lines 392-393: an exception outside the enhancement
GbsrOuterRaise ==
    /\ rpc \in {"start", "fb_tv", "fb_yf"}
    /\ result' = [error |-> "Error generating buy/sell recommendation"]
    /\ rpc' = "ret_exc"
    /\ UNCHANGED <<risk_tolerance, cmcEnv, yfEnv, cmc_recommendation, tv_analysis,
                   yf_analysis, calls,
                   chatVars, cmpVars, advVars, cmcapiVars, symVars, ctcVars, indVars, tvaVars>>

InitRec ==
    /\ rpc = "start"
    /\ risk_tolerance \in RiskArguments
    /\ cmcEnv \in CmcEnvs
    /\ yfEnv \in YfEnvs
    /\ cmc_recommendation = None
    /\ tv_analysis = None
    /\ yf_analysis = None
    /\ result = None
    /\ calls = <<>>
    /\ cpc = "idle"
    /\ is_windows = FALSE
    /\ body = [kind |-> "invalid_json"]
    /\ agentBehaviour = "returns"
    /\ alarm = "off"
    /\ agentQueries = <<>>
    /\ caught = "nothing"
    /\ response = None
    /\ kpc = "idle"
    /\ fn = "compare_stocks"
    /\ symbols = <<>>
    /\ outcome = <<>>
    /\ idx = 0
    /\ results = <<>>
    /\ performance_data = <<>>
    /\ volatility_data = <<>>
    /\ returned = None
    /\ apc = "idle"
    /\ asset = "equity"
    /\ history = None
    /\ analysis = None
    /\ tech_signals = <<>>
    /\ fund_signals = <<>>
    /\ tech_weight_sum = 0
    /\ fund_weight_sum = 0
    /\ tech_normalized = 0
    /\ fund_normalized = 0
    /\ combined_score = 0
    /\ potential_upside = 0
    /\ potential_downside = 0
    /\ advice = None
    /\ mpc = "idle"
    /\ entry = "get_cmc_crypto_data"
    /\ api_key = TRUE
    /\ provider = <<>>
    /\ responses = <<>>
    /\ cmc_out = None
    /\ npc = "idle"
    /\ raw_symbol = <<>>
    /\ clean_symbol = <<>>
    /\ cmc_symbol = <<>>
    /\ tv_symbol = <<>>
    /\ tpc = "idle"
    /\ tickers = <<>>
    /\ asset_type = "auto"
    /\ closeOut = <<>>
    /\ comparison_data = None
    /\ data_source = None
    /\ key_metrics = <<>>
    /\ price_data = <<>>
    /\ correlation_matrix = <<>>
    /\ volatility_metrics = <<>>
    /\ ctc_results = None
    /\ ipc = "idle"
    /\ series = None
    /\ golden_cross = FALSE
    /\ death_cross = FALSE
    /\ macd_signal = ""
    /\ ind_analysis = None
    /\ ind_signals = <<>>
    /\ vpc = "idle"
    /\ tva_raw = <<>>
    /\ interval = "1d"
    /\ scanEnv = <<>>
    /\ tva_requests = <<>>
    /\ tva_tv_symbol = None
    /\ tva_result = None

NextRec ==
    \/ GbsrCallCmc
    \/ GbsrEnhCallTv
    \/ GbsrEnhCallYf
    \/ GbsrEnhMergeTv
    \/ GbsrEnhMergeYf
    \/ GbsrEnhConsensus
    \/ GbsrEnhRaise
    \/ GbsrFbCallTv
    \/ GbsrFbCallYf
    \/ GbsrOuterRaise

SpecRec == InitRec /\ [][NextRec]_vars

(***************************************************************************)
(* The /api/chat endpoint and run_with_timeout (src/backend/app.py).       *)
(***************************************************************************)
\* the longest 'messages' list of a request
MaxMessages == 3

Roles == {"user", "assistant", "system"}
\* message contents: empty, two plain queries, and a query that the keyword
\* tests of get_agent_response route to handle_btc_eth_comparison
Contents == {"", "price of AAPL", "analyze TSLA", "compare btc and eth"}

Messages == [role : Roles, content : Contents]
MessageLists == UNION {[1..n -> Messages] : n \in 0..MaxMessages}

\* request bodies: not JSON, JSON without 'messages', JSON with 'messages'
Bodies ==
    {[kind |-> "invalid_json", messages |-> <<>>],
     [kind |-> "no_messages", messages |-> <<>>]}
    \cup {[kind |-> "messages", messages |-> ms] : ms \in MessageLists}

AgentBehaviours == {"returns", "raises", "hangs"}

\* lines 144-147: compare/comparison/vs/versus with bitcoin|btc and ethereum|eth
IsBtcEthComparison(content) == content = "compare btc and eth"

RECURSIVE LastWithRole(_, _)
\* mutant: next(...) over messages instead of reversed(messages)
FirstUserMessage(messages) ==
    IF \E i \in 1..Len(messages) : messages[i].role = "user"
    THEN LET i == CHOOSE i \in 1..Len(messages) :
                    /\ messages[i].role = "user"
                    /\ \A j \in 1..(i - 1) : messages[j].role # "user"
         IN  [found |-> TRUE, content |-> messages[i].content]
    ELSE [found |-> FALSE, content |-> ""]

\* mutant: the role test is dropped
LastMessageAnyRole(messages) ==
    IF Len(messages) > 0
    THEN [found |-> TRUE, content |-> messages[Len(messages)].content]
    ELSE [found |-> FALSE, content |-> ""]

\* line 117: walk reversed(messages) from position n down
LastWithRole(messages, n) ==
    IF n = 0 THEN [found |-> FALSE, content |-> ""]
    ELSE IF messages[n].role = "user" THEN [found |-> TRUE, content |-> messages[n].content]
    ELSE LastWithRole(messages, n - 1)

\* line 117: next((m['content'] for m in reversed(messages) if m['role'] == 'user'), None)
UserMessage(messages) == LastWithRole(messages, Len(messages))

\* line 119: the truth value of user_message (None and "" are false)
Truthy(um) == um.found /\ um.content # ""

\* lines 170-175: response_text
ResponseText(v) == IF "response" \in DOMAIN v THEN v.response ELSE v.str

\* lines 168-184: the response for the way run_with_timeout ended
ChatResponse(how, v) ==
    IF how = "value" THEN [status |-> 200, message |-> ResponseText(v)]
    ELSE IF how = "timeout"
    THEN [status |-> 504, error |-> "The financial agent took too long to respond"]
    ELSE [status |-> 500, message |-> "I encountered an error processing your request"]

\* line 165: what get_agent_response returns from its except clause
IssueText == [str |-> "I encountered an issue while processing your request"]

\* lines 105-123: parse and validate the request
ChatValidate ==
    /\ cpc = "recv"
    /\ IF body.kind = "invalid_json"
       THEN /\ response' = [status |-> 400, error |-> "Invalid JSON payload"]
            /\ cpc' = "done"
       ELSE IF body.kind = "no_messages"
       THEN /\ response' = [status |-> 400, error |-> "Invalid request. 'messages' is required"]
            /\ cpc' = "done"
       ELSE IF ~Truthy(UserMessage(body.messages))
       THEN /\ response' = [status |-> 400, error |-> "No user message found"]
            /\ cpc' = "done"
       ELSE /\ response' = response
            /\ cpc' = "call"
    /\ UNCHANGED <<is_windows, body, agentBehaviour, alarm, agentQueries, caught,
                   recVars, cmpVars, advVars, cmcapiVars, symVars, ctcVars, indVars, tvaVars>>

\* lines 82-87 and 95: start the worker thread, or arm the alarm
RunWithTimeoutStart ==
    /\ cpc = "call"
    /\ alarm' = IF is_windows THEN alarm ELSE "armed"
    /\ cpc' = "in_func"
    /\ UNCHANGED <<is_windows, body, agentBehaviour, agentQueries, caught, response,
                   recVars, cmpVars, advVars, cmcapiVars, symVars, ctcVars, indVars, tvaVars>>

\* lines 134-162: get_agent_response up to its call
AgentRoute ==
    /\ cpc = "in_func"
    /\ LET user_message == UserMessage(body.messages).content
       IN  IF IsBtcEthComparison(user_message)
           THEN /\ caught' = "comparison"
                /\ agentQueries' = agentQueries
                /\ cpc' = "func_returned"
           ELSE /\ caught' = caught
                /\ agentQueries' = Append(agentQueries, user_message)
                /\ cpc' = "in_agent"
    /\ UNCHANGED <<is_windows, body, agentBehaviour, alarm, response, recVars, cmpVars, advVars, cmcapiVars, symVars, ctcVars, indVars, tvaVars>>

\* line 162: financial_agent.chat returns
AgentReturns ==
    /\ cpc = "in_agent"
    /\ agentBehaviour = "returns"
    /\ caught' = "nothing"
    /\ cpc' = "func_returned"
    /\ UNCHANGED <<is_windows, body, agentBehaviour, alarm, agentQueries, response,
                   recVars, cmpVars, advVars, cmcapiVars, symVars, ctcVars, indVars, tvaVars>>

\* lines 163-165: financial_agent.chat raises, get_agent_response catches it
AgentRaises ==
    /\ cpc = "in_agent"
    /\ agentBehaviour = "raises"
    /\ caught' = "agent_error"
    /\ cpc' = "func_returned"
    /\ UNCHANGED <<is_windows, body, agentBehaviour, alarm, agentQueries, response,
                   recVars, cmpVars, advVars, cmcapiVars, symVars, ctcVars, indVars, tvaVars>>

\* lines 67-68 and 163-165: the alarm fires while the agent runs inside the try
\* block of get_agent_response; TimeoutException is an Exception, so the
\* except clause catches it
AlarmInAgent ==
    /\ cpc = "in_agent"
    /\ ~is_windows
    /\ alarm = "armed"
    /\ agentBehaviour = "hangs"
    /\ alarm' = "fired"
    /\ caught' = "timeout"
    /\ cpc' = "func_returned"
    /\ UNCHANGED <<is_windows, body, agentBehaviour, agentQueries, response,
                   recVars, cmpVars, advVars, cmcapiVars, symVars, ctcVars, indVars, tvaVars>>

\* lines 67-68, 97-101 and 179-181: the alarm fires after get_agent_response
\* has returned and before signal.alarm(0); the exception leaves run_with_timeout
AlarmAfterReturn ==
    /\ cpc = "func_returned"
    /\ ~is_windows
    /\ alarm = "armed"
    /\ alarm' = "fired"
    /\ response' = ChatResponse("timeout", None)
    /\ cpc' = "done"
    /\ UNCHANGED <<is_windows, body, agentBehaviour, agentQueries, caught,
                   recVars, cmpVars, advVars, cmcapiVars, symVars, ctcVars, indVars, tvaVars>>

\* lines 87-89 and 179-181: join times out while the worker is still alive
JoinTimeout ==
    /\ cpc = "in_agent"
    /\ is_windows
    /\ agentBehaviour = "hangs"
    /\ response' = ChatResponse("timeout", None)
    /\ cpc' = "done"
    /\ UNCHANGED <<is_windows, body, agentBehaviour, alarm, agentQueries, caught,
                   recVars, cmpVars, advVars, cmcapiVars, symVars, ctcVars, indVars, tvaVars>>

\* mutant: the value is returned with the alarm left as it is
RunWithTimeoutReturnNoCancel ==
    /\ cpc = "func_returned"
    /\ alarm' = alarm
    /\ response' = ChatResponse("value",
                      IF caught = "nothing" THEN [response |-> "agent answer"]
                      ELSE IF caught = "comparison" THEN [str |-> "Bitcoin vs Ethereum Comparison"]
                      ELSE IssueText)
    /\ cpc' = "done"
    /\ UNCHANGED <<is_windows, body, agentBehaviour, agentQueries, caught,
                   recVars, cmpVars, advVars, cmcapiVars, symVars, ctcVars, indVars, tvaVars>>

\* lines 90-92 or 97-101, then 170-178: run_with_timeout returns the value
RunWithTimeoutReturn ==
    /\ cpc = "func_returned"
    /\ alarm' = IF is_windows THEN alarm ELSE "off"
    /\ response' = ChatResponse("value",
                      IF caught = "nothing" THEN [response |-> "agent answer"]
                      ELSE IF caught = "comparison" THEN [str |-> "Bitcoin vs Ethereum Comparison"]
                      ELSE IssueText)
    /\ cpc' = "done"
    /\ UNCHANGED <<is_windows, body, agentBehaviour, agentQueries, caught,
                   recVars, cmpVars, advVars, cmcapiVars, symVars, ctcVars, indVars, tvaVars>>

InitChat ==
    /\ cpc = "recv"
    /\ is_windows \in BOOLEAN
    /\ body \in Bodies
    /\ agentBehaviour \in AgentBehaviours
    /\ alarm = "off"
    /\ agentQueries = <<>>
    /\ caught = "nothing"
    /\ response = None
    /\ rpc = "idle"
    /\ risk_tolerance = "moderate"
    /\ cmcEnv = [kind |-> "no_key"]
    /\ yfEnv = [kind |-> "error"]
    /\ cmc_recommendation = None
    /\ tv_analysis = None
    /\ yf_analysis = None
    /\ result = None
    /\ calls = <<>>
    /\ kpc = "idle"
    /\ fn = "compare_stocks"
    /\ symbols = <<>>
    /\ outcome = <<>>
    /\ idx = 0
    /\ results = <<>>
    /\ performance_data = <<>>
    /\ volatility_data = <<>>
    /\ returned = None
    /\ apc = "idle"
    /\ asset = "equity"
    /\ history = None
    /\ analysis = None
    /\ tech_signals = <<>>
    /\ fund_signals = <<>>
    /\ tech_weight_sum = 0
    /\ fund_weight_sum = 0
    /\ tech_normalized = 0
    /\ fund_normalized = 0
    /\ combined_score = 0
    /\ potential_upside = 0
    /\ potential_downside = 0
    /\ advice = None
    /\ mpc = "idle"
    /\ entry = "get_cmc_crypto_data"
    /\ api_key = TRUE
    /\ provider = <<>>
    /\ responses = <<>>
    /\ cmc_out = None
    /\ npc = "idle"
    /\ raw_symbol = <<>>
    /\ clean_symbol = <<>>
    /\ cmc_symbol = <<>>
    /\ tv_symbol = <<>>
    /\ tpc = "idle"
    /\ tickers = <<>>
    /\ asset_type = "auto"
    /\ closeOut = <<>>
    /\ comparison_data = None
    /\ data_source = None
    /\ key_metrics = <<>>
    /\ price_data = <<>>
    /\ correlation_matrix = <<>>
    /\ volatility_metrics = <<>>
    /\ ctc_results = None
    /\ ipc = "idle"
    /\ series = None
    /\ golden_cross = FALSE
    /\ death_cross = FALSE
    /\ macd_signal = ""
    /\ ind_analysis = None
    /\ ind_signals = <<>>
    /\ vpc = "idle"
    /\ tva_raw = <<>>
    /\ interval = "1d"
    /\ scanEnv = <<>>
    /\ tva_requests = <<>>
    /\ tva_tv_symbol = None
    /\ tva_result = None

NextChat ==
    \/ ChatValidate
    \/ RunWithTimeoutStart
    \/ AgentRoute
    \/ AgentReturns
    \/ AgentRaises
    \/ AlarmInAgent
    \/ AlarmAfterReturn
    \/ JoinTimeout
    \/ RunWithTimeoutReturn

SpecChat == InitChat /\ [][NextChat]_vars

(***************************************************************************)
(* compare_stocks (src/agentic-rag.py) and compare_cryptos                 *)
(* (src/financial_tools.py).                                               *)
(***************************************************************************)
\* the longest batch of symbols
MaxSymbols == 3

\* the symbols a batch is drawn from, with and without the "-USD" suffix
Symbols == {"BTC-USD", "ETH", "SOL-USD"}

\* lines 1331-1336: f"{symbol}-USD" unless the symbol holds a '-'
FormatSymbol(sym) == IF sym = "ETH" THEN "ETH-USD" ELSE sym

\* the symbols Yahoo is asked about
YahooSymbols == Symbols \cup {FormatSymbol(sym) : sym \in Symbols}

\* percent change over the period, and annualized volatility, of a series
PeriodChanges == {-10, 25}
Volatilities == {30, 80}

\* what the price history of a symbol does: it is fetched, it is empty, or
\* the fetch raises
FetchOutcomes ==
    {[kind |-> "empty"], [kind |-> "raise"]}
    \cup {[kind |-> "ok", period_change_pct |-> c, volatility_annual |-> v] :
            c \in PeriodChanges, v \in Volatilities}

Batches == UNION {[1..n -> Symbols] : n \in 1..MaxSymbols}

\* an insertion-ordered dict as a sequence of [key, value] entries
OrderedSet(d, k, v) ==
    IF \E i \in 1..Len(d) : d[i].key = k
    THEN [i \in 1..Len(d) |-> IF d[i].key = k THEN [key |-> k, value |-> v] ELSE d[i]]
    ELSE Append(d, [key |-> k, value |-> v])

OrderedKeys(d) == [i \in 1..Len(d) |-> d[i].key]
OrderedGet(d, k) == d[CHOOSE i \in 1..Len(d) : d[i].key = k].value

RECURSIVE InsertSorted(_, _, _)
\* put x behind every element of the sorted sequence xs whose key is not
\* greater than its own (key: a function from elements to numbers)
InsertSorted(xs, x, key) ==
    IF xs = <<>> THEN <<x>>
    ELSE IF key[x] < key[Head(xs)] THEN <<x>> \o xs
    ELSE <<Head(xs)>> \o InsertSorted(Tail(xs), x, key)

RECURSIVE SortedBy(_, _, _)
\* sorted(): a stable ascending sort by key of the first n elements of xs
SortedBy(xs, n, key) ==
    IF n = 0 THEN <<>>
    ELSE InsertSorted(SortedBy(xs, n - 1, key), xs[n], key)

\* compare_stocks, lines 116-127: the entry of one ticker
StockEntry(o) ==
    IF o.kind = "ok"
    THEN [start_price |-> 100, current_price |-> 100 + o.period_change_pct,
          percent_change |-> o.period_change_pct]
    ELSE IF o.kind = "empty"
    THEN [str |-> "Error: single positional indexer is out-of-bounds"]
    ELSE [str |-> "Error: fetch failed"]

\* analyze_crypto, lines 850-1013: the analysis dict, or a str
analyze_crypto(o) ==
    IF o.kind = "ok"
    THEN [price_data |-> [period_change_pct |-> o.period_change_pct,
                          volatility_annual |-> o.volatility_annual]]
    ELSE IF o.kind = "empty"
    THEN [str |-> "Error: No data found"]
    ELSE [str |-> "Error: Error retrieving data"]

\* line 1389: risk_level
RiskLevel(volatility) ==
    IF volatility > 100 THEN "Very High"
    ELSE IF volatility > 70 THEN "High"
    ELSE IF volatility > 40 THEN "Moderate"
    ELSE "Low"

\* lines 1344-1350: btc_change
BtcChange(env) ==
    IF env["BTC-USD"].kind = "ok" THEN env["BTC-USD"].period_change_pct ELSE 0

\* lines 108-112 / 1325-1350: normalise the batch, start with empty dicts
ComparePrepare ==
    /\ kpc = "start"
    /\ symbols' = IF fn = "compare_cryptos"
                  THEN [i \in 1..Len(symbols) |-> FormatSymbol(symbols[i])]
                  ELSE symbols
    /\ idx' = 1
    /\ kpc' = "loop"
    /\ UNCHANGED <<fn, outcome, results, performance_data, volatility_data, returned,
                   recVars, chatVars, advVars, cmcapiVars, symVars, ctcVars, indVars, tvaVars>>

\* compare_stocks, lines 114-127: one turn of the loop
CompareStocksStep ==
    /\ kpc = "loop"
    /\ fn = "compare_stocks"
    /\ idx <= Len(symbols)
    /\ results' = DictSet(results, symbols[idx], StockEntry(outcome[symbols[idx]]))
    /\ idx' = idx + 1
    /\ UNCHANGED <<kpc, fn, symbols, outcome, performance_data, volatility_data, returned,
                   recVars, chatVars, advVars, cmcapiVars, symVars, ctcVars, indVars, tvaVars>>

\* compare_stocks, line 129
CompareStocksReturn ==
    /\ kpc = "loop"
    /\ fn = "compare_stocks"
    /\ idx > Len(symbols)
    /\ returned' = results
    /\ kpc' = "done"
    /\ UNCHANGED <<fn, symbols, outcome, idx, results, performance_data, volatility_data,
                   recVars, chatVars, advVars, cmcapiVars, symVars, ctcVars, indVars, tvaVars>>

\* compare_cryptos, lines 1353-1403: one turn of the loop
CompareCryptosStep ==
    /\ kpc = "loop"
    /\ fn = "compare_cryptos"
    /\ idx <= Len(symbols)
    /\ LET symbol == symbols[idx]
           symbol_analysis == analyze_crypto(outcome[symbol])
       IN  IF ~IsDict(symbol_analysis)
           THEN /\ results' = DictSet(results, symbol, symbol_analysis)
                /\ UNCHANGED <<performance_data, volatility_data>>
           ELSE /\ performance_data' = OrderedSet(performance_data, symbol,
                      [period_change_pct |-> symbol_analysis.price_data.period_change_pct,
                       vs_btc_change |-> symbol_analysis.price_data.period_change_pct - BtcChange(outcome),
                       outperforming_btc |-> symbol_analysis.price_data.period_change_pct > BtcChange(outcome)])
                /\ volatility_data' = OrderedSet(volatility_data, symbol,
                      [volatility_annual |-> symbol_analysis.price_data.volatility_annual,
                       risk_level |-> RiskLevel(symbol_analysis.price_data.volatility_annual)])
                /\ UNCHANGED results
    /\ idx' = idx + 1
    /\ UNCHANGED <<kpc, fn, symbols, outcome, returned, recVars, chatVars, advVars, cmcapiVars, symVars, ctcVars, indVars, tvaVars>>

\* mutant: the rankings keep the order in which the symbols were analysed
CompareCryptosReturnUnsorted ==
    /\ kpc = "loop"
    /\ fn = "compare_cryptos"
    /\ idx > Len(symbols)
    /\ results' = [btc_performance |-> BtcChange(outcome),
                   performance_data |-> performance_data,
                   volatility_data |-> volatility_data,
                   performance_ranking |-> OrderedKeys(performance_data),
                   volatility_ranking |-> OrderedKeys(volatility_data)]
    /\ returned' = results'
    /\ kpc' = "done"
    /\ UNCHANGED <<fn, symbols, outcome, idx, performance_data, volatility_data,
                   recVars, chatVars, advVars, cmcapiVars, symVars, ctcVars, indVars, tvaVars>>

\* compare_cryptos, lines 1405-1429: rank, then rebuild results and return it
CompareCryptosReturn ==
    /\ kpc = "loop"
    /\ fn = "compare_cryptos"
    /\ idx > Len(symbols)
    /\ LET perfKeys == OrderedKeys(performance_data)
           volKeys == OrderedKeys(volatility_data)
           \* reverse=True: descending by period_change_pct
           negChange == [k \in {perfKeys[i] : i \in 1..Len(perfKeys)} |->
                            0 - OrderedGet(performance_data, k).period_change_pct]
           vol == [k \in {volKeys[i] : i \in 1..Len(volKeys)} |->
                      OrderedGet(volatility_data, k).volatility_annual]
       IN  results' = [btc_performance |-> BtcChange(outcome),
                       performance_data |-> performance_data,
                       volatility_data |-> volatility_data,
                       performance_ranking |-> SortedBy(perfKeys, Len(perfKeys), negChange),
                       volatility_ranking |-> SortedBy(volKeys, Len(volKeys), vol)]
    /\ returned' = results'
    /\ kpc' = "done"
    /\ UNCHANGED <<fn, symbols, outcome, idx, performance_data, volatility_data,
                   recVars, chatVars, advVars, cmcapiVars, symVars, ctcVars, indVars, tvaVars>>

InitCmp ==
    /\ kpc = "start"
    /\ fn \in {"compare_stocks", "compare_cryptos"}
    /\ symbols \in Batches
    /\ outcome \in [YahooSymbols -> FetchOutcomes]
    /\ idx = 0
    /\ results = <<>>
    /\ performance_data = <<>>
    /\ volatility_data = <<>>
    /\ returned = None
    /\ rpc = "idle"
    /\ risk_tolerance = "moderate"
    /\ cmcEnv = [kind |-> "no_key"]
    /\ yfEnv = [kind |-> "error"]
    /\ cmc_recommendation = None
    /\ tv_analysis = None
    /\ yf_analysis = None
    /\ result = None
    /\ calls = <<>>
    /\ cpc = "idle"
    /\ is_windows = FALSE
    /\ body = [kind |-> "invalid_json"]
    /\ agentBehaviour = "returns"
    /\ alarm = "off"
    /\ agentQueries = <<>>
    /\ caught = "nothing"
    /\ response = None
    /\ apc = "idle"
    /\ asset = "equity"
    /\ history = None
    /\ analysis = None
    /\ tech_signals = <<>>
    /\ fund_signals = <<>>
    /\ tech_weight_sum = 0
    /\ fund_weight_sum = 0
    /\ tech_normalized = 0
    /\ fund_normalized = 0
    /\ combined_score = 0
    /\ potential_upside = 0
    /\ potential_downside = 0
    /\ advice = None
    /\ mpc = "idle"
    /\ entry = "get_cmc_crypto_data"
    /\ api_key = TRUE
    /\ provider = <<>>
    /\ responses = <<>>
    /\ cmc_out = None
    /\ npc = "idle"
    /\ raw_symbol = <<>>
    /\ clean_symbol = <<>>
    /\ cmc_symbol = <<>>
    /\ tv_symbol = <<>>
    /\ tpc = "idle"
    /\ tickers = <<>>
    /\ asset_type = "auto"
    /\ closeOut = <<>>
    /\ comparison_data = None
    /\ data_source = None
    /\ key_metrics = <<>>
    /\ price_data = <<>>
    /\ correlation_matrix = <<>>
    /\ volatility_metrics = <<>>
    /\ ctc_results = None
    /\ ipc = "idle"
    /\ series = None
    /\ golden_cross = FALSE
    /\ death_cross = FALSE
    /\ macd_signal = ""
    /\ ind_analysis = None
    /\ ind_signals = <<>>
    /\ vpc = "idle"
    /\ tva_raw = <<>>
    /\ interval = "1d"
    /\ scanEnv = <<>>
    /\ tva_requests = <<>>
    /\ tva_tv_symbol = None
    /\ tva_result = None

NextCmp ==
    \/ ComparePrepare
    \/ CompareStocksStep
    \/ CompareStocksReturn
    \/ CompareCryptosStep
    \/ CompareCryptosReturn

SpecCmp == InitCmp /\ [][NextCmp]_vars

(***************************************************************************)
(* The scorers generate_investment_advice and                              *)
(* generate_crypto_investment_advice with the analyses they start from,    *)
(* extract_financial_insights and analyze_crypto (src/financial_tools.py). *)
(* Floats are fixed-point numbers: scores in thousandths of a point,       *)
(* potential_upside / potential_downside in thousandths of a percent,      *)
(* volatility factors in thousandths; a division truncates toward zero.    *)
(***************************************************************************)
\* a NaN entry of a pandas series, and a number in it
NaN == [nan |-> TRUE]
Num(n) == [v |-> n]
\* pd.isna(x)
IsNa(x) == "nan" \in DOMAIN x

\* a / b for b > 0, truncated toward zero
Quot(a, b) == IF a >= 0 THEN a \div b ELSE 0 - ((0 - a) \div b)

\* round(): x to the nearest multiple of q, a tie to the even multiple
RoundTo(x, q) ==
    LET a == Abs(x)
        lo == a \div q
        rest == a % q
        n == IF 2 * rest < q THEN lo
             ELSE IF 2 * rest > q THEN lo + 1
             ELSE IF lo % 2 = 0 THEN lo ELSE lo + 1
    IN  IF x >= 0 THEN n * q ELSE 0 - (n * q)

Min(a, b) == IF a < b THEN a ELSE b
Max(a, b) == IF a > b THEN a ELSE b

\* the last close of every modelled series
CurrentPrice == 2

\* the last two points [-2], [-1] of a rolling mean: NaN until its window is
\* full, then values below or above the last close
MaValues == {1, 3}
MaTails ==
    {<<NaN, NaN>>}
    \cup {<<NaN, Num(b)>> : b \in MaValues}
    \cup {<<Num(a), Num(b)>> : a \in MaValues, b \in MaValues}

\* RSI values: oversold, neutral, overbought
RsiValues == {20, 50, 80}

\* the last two points of the MACD line, against a signal line at SignalLine
MacdValues == {1, 3}
SignalLine == 2
MacdTails == {<<a, b>> : a \in MacdValues, b \in MacdValues}

\* the Bollinger bands [upper, lower] at the last point
BandChoices == {[upper |-> 3, lower |-> 1], [upper |-> 1, lower |-> 0]}

\* the tail of a price history with its indicators; MA200 is defined only
\* where MA50 is
SeriesTails ==
    {t \in [ma50 : MaTails, ma200 : MaTails, rsi : RsiValues,
            macd : MacdTails, bands : BandChoices] :
        /\ IsNa(t.ma50[1]) => IsNa(t.ma200[1])
        /\ IsNa(t.ma50[2]) => IsNa(t.ma200[2])}

\* lines 194-195 / 869-870: the windows of the two moving averages
MA50Window == 50
MA200Window == 200

\* the number of rows of a fetched price history: none, fewer than either
\* window, between the windows (the six-month default), and at least 200
HistoryPoints == {0, 30, 126, 200, 250}

\* what fetching the price history gives: it raises, or a frame of n rows
Histories == {[kind |-> "raise"]} \cup {[kind |-> "ok", points |-> n] : n \in HistoryPoints}

\* the tails a history of n rows can have: a rolling mean of window w is NaN
\* at the rows before the w-th
TailsFor(n) ==
    {t \in SeriesTails :
        /\ IsNa(t.ma50[2]) <=> n < MA50Window
        /\ IsNa(t.ma50[1]) <=> n - 1 < MA50Window
        /\ IsNa(t.ma200[2]) <=> n < MA200Window
        /\ IsNa(t.ma200[1]) <=> n - 1 < MA200Window}

\* lines 219-220 / 888-889: the latest value, None when it is NaN
Latest(tail) == IF IsNa(tail[2]) THEN None ELSE tail[2]

\* mutant: a level check, MA50 above MA200 at the last point
GoldenCrossLevel(t) ==
    /\ ~IsNa(t.ma50[2]) /\ ~IsNa(t.ma200[2])
    /\ t.ma50[2].v > t.ma200[2].v

\* lines 225-226 / 894-895
GoldenCross(t) ==
    /\ ~IsNa(t.ma50[2]) /\ ~IsNa(t.ma200[2]) /\ ~IsNa(t.ma50[1]) /\ ~IsNa(t.ma200[1])
    /\ t.ma50[1].v <= t.ma200[1].v
    /\ t.ma50[2].v > t.ma200[2].v

\* lines 225-227 / 894-896
DeathCross(t) ==
    /\ ~IsNa(t.ma50[2]) /\ ~IsNa(t.ma200[2]) /\ ~IsNa(t.ma50[1]) /\ ~IsNa(t.ma200[1])
    /\ t.ma50[1].v >= t.ma200[1].v
    /\ t.ma50[2].v < t.ma200[2].v

\* lines 231-237 / 900-906
RsiSignal(rsi) ==
    IF rsi < 30 THEN "Oversold" ELSE IF rsi > 70 THEN "Overbought" ELSE "Neutral"

\* mutant: the static above/below test comes first
MacdSignalStaticFirst(macd) ==
    IF macd[2] > SignalLine THEN "Bullish"
    ELSE IF macd[2] < SignalLine THEN "Bearish"
    ELSE IF macd[1] <= SignalLine /\ macd[2] > SignalLine THEN "Bullish Crossover"
    ELSE "Bearish Crossover"

\* lines 241-249 / 910-918
MacdSignal(macd) ==
    IF macd[1] <= SignalLine /\ macd[2] > SignalLine THEN "Bullish Crossover"
    ELSE IF macd[1] >= SignalLine /\ macd[2] < SignalLine THEN "Bearish Crossover"
    ELSE IF macd[2] > SignalLine THEN "Bullish"
    ELSE "Bearish"

\* lines 253-259 / 922-928
BbSignal(bands) ==
    IF CurrentPrice > bands.upper THEN "Overbought"
    ELSE IF CurrentPrice < bands.lower THEN "Oversold"
    ELSE "Within Bands"

\* lines 278-279 / 966-967: current_price > ma_latest is evaluated first, and
\* comparing a float with None raises TypeError
PriceVsMaRaises(ma_latest) == ma_latest = None

\* lines 278-279 / 966-967 where the comparison is defined
PriceVsMa(ma_latest) ==
    IF CurrentPrice > ma_latest.v THEN "Above"
    ELSE IF ma_latest # None THEN "Below"
    ELSE "Unknown"

\* lines 272-295 / 960-983: the technical_indicators dict
TechnicalIndicators(t) ==
    [moving_averages |->
        [ma50 |-> Latest(t.ma50),
         ma200 |-> Latest(t.ma200),
         golden_cross |-> GoldenCross(t),
         death_cross |-> DeathCross(t),
         price_vs_ma50 |-> PriceVsMa(Latest(t.ma50)),
         price_vs_ma200 |-> PriceVsMa(Latest(t.ma200))],
     rsi |-> [current |-> t.rsi, signal |-> RsiSignal(t.rsi)],
     macd |-> [current |-> t.macd[2], signal |-> MacdSignal(t.macd)],
     bollinger_bands |-> [signal |-> BbSignal(t.bands)]]

\* the strs the analyses return that hold the word "Error"
ErrorTexts == {"Error performing comprehensive analysis",
               "Error: No data found",
               "Error: Error retrieving data"}

\* isinstance(analysis, str) and "Error" in analysis
IsErrorStr(a) == "str" \in DOMAIN a /\ a.str \in ErrorTexts

\* get_company_financials: a str, or the metrics it found (a missing key is a
\* None); profit_margins, return_on_equity and debt_to_equity in hundredths
FundamentalsChoices ==
    {[str |-> "Error retrieving financial data"],
     [sector |-> "Technology"],
     [pe_ratio |-> 10, revenue_growth_pct |-> 25, profit_margins |-> 25,
      return_on_equity |-> 25, debt_to_equity |-> 30],
     [pe_ratio |-> 40, revenue_growth_pct |-> -5, profit_margins |-> 3,
      return_on_equity |-> 5, debt_to_equity |-> 300],
     [pe_ratio |-> 20, revenue_growth_pct |-> 5, profit_margins |-> 1000,
      return_on_equity |-> 1500, debt_to_equity |-> 100],
     [pe_ratio |-> 10, revenue_growth_pct |-> 15]}

\* get_analyst_recommendations: a str, or the recommendation_counts
AnalystChoices ==
    {[str |-> "No analyst recommendations available"],
     [recommendation_counts |-> [Buy |-> 3]],
     [recommendation_counts |-> [Sell |-> 2, Hold |-> 1]],
     [recommendation_counts |-> [Hold |-> 2]],
     [recommendation_counts |-> [Positive |-> 1]]}

\* what the fetches behind extract_financial_insights do
EquityEnvs(d) ==
    IF d.kind = "raise" THEN {[kind |-> "raise"]}
    ELSE IF d.points = 0 THEN {[kind |-> "empty"]}
    ELSE {[kind |-> "ok", tail |-> t, fundamentals |-> f, analyst |-> a,
           period_change_pct |-> 12] :
            t \in TailsFor(d.points), f \in FundamentalsChoices, a \in AnalystChoices}

\* extract_financial_insights, lines 181-303
extract_financial_insights(env) ==
    IF env.kind = "raise" THEN [str |-> "Error performing comprehensive analysis"]
    ELSE IF env.kind = "empty" THEN [str |-> "No price data available"]
    ELSE IF PriceVsMaRaises(Latest(env.tail.ma50)) \/ PriceVsMaRaises(Latest(env.tail.ma200))
    THEN [str |-> "Error performing comprehensive analysis"]
    ELSE [price_data |-> [current_price |-> CurrentPrice,
                          period_change_pct |-> env.period_change_pct],
          technical_indicators |-> TechnicalIndicators(env.tail),
          fundamentals |-> env.fundamentals,
          analyst_recommendations |-> env.analyst]

\* volume_change_pct, annualized volatility in percent, and what the Bitcoin
\* comparison of lines 987-1008 adds
VolumeChanges == {10, 40}
CryptoVolatilities == {20, 120}
BtcComparisons == {"absent", "outperforming", "underperforming"}

\* what the fetches behind analyze_crypto do
CryptoEnvs(d) ==
    IF d.kind = "raise" THEN {[kind |-> "raise"]}
    ELSE IF d.points = 0 THEN {[kind |-> "empty"]}
    ELSE {[kind |-> "ok", tail |-> t, volume_change_pct |-> vc,
           volatility_annual |-> vol, btc_comparison |-> b,
           period_change_pct |-> 12] :
            t \in TailsFor(d.points), vc \in VolumeChanges, vol \in CryptoVolatilities,
            b \in BtcComparisons}

\* analyze_crypto, lines 850-1013, with every field of the analysis
CryptoAnalysis(env) ==
    IF env.kind = "raise" THEN [str |-> "Error: Error retrieving data"]
    ELSE IF env.kind = "empty" THEN [str |-> "Error: No data found"]
    ELSE IF PriceVsMaRaises(Latest(env.tail.ma50)) \/ PriceVsMaRaises(Latest(env.tail.ma200))
    THEN [str |-> "Error performing comprehensive analysis"]
    ELSE LET base == [price_data |-> [current_price |-> CurrentPrice,
                                      period_change_pct |-> env.period_change_pct,
                                      volatility_annual |-> env.volatility_annual],
                      market_data |-> [volume_change_pct |-> env.volume_change_pct],
                      technical_indicators |-> TechnicalIndicators(env.tail)]
         IN  IF env.btc_comparison = "absent" THEN base
             ELSE DictSet(base, "btc_comparison",
                          [outperforming_btc |-> env.btc_comparison = "outperforming"])

\* one entry of tech_signals / fund_signals
Signal(indicator, signal, weight) ==
    [indicator |-> indicator, signal |-> signal, weight |-> weight]

\* x if cond else nothing, as a list
When(cond, x) == IF cond THEN <<x>> ELSE <<>>

\* "Bullish" in macd_signal / "Bearish" in macd_signal / "Crossover" in macd_signal
HasBullish(s) == s \in {"Bullish", "Bullish Crossover"}
HasBearish(s) == s \in {"Bearish", "Bearish Crossover"}
HasCrossover(s) == s \in {"Bullish Crossover", "Bearish Crossover"}

\* lines 363-406 / 1042-1091: tech_signals; indexing a str analysis raises
\* inside the try, which leaves the one zero-weight error signal
TechSignals(a, crypto) ==
    IF ~IsDict(a)
    THEN <<Signal("Error", "Error processing technical signals", 0)>>
    ELSE LET ma == a.technical_indicators.moving_averages
             rsi_signal == a.technical_indicators.rsi.signal
             macd_sig == a.technical_indicators.macd.signal
             bb_signal == a.technical_indicators.bollinger_bands.signal
         IN  When(ma.golden_cross, Signal("Golden Cross", "Bullish", 3))
             \o When(ma.death_cross, Signal("Death Cross", "Bearish", 3))
             \o When(ma.price_vs_ma50 = "Above", Signal("Price vs MA50", "Bullish", 2))
             \o When(ma.price_vs_ma50 = "Below", Signal("Price vs MA50", "Bearish", 2))
             \o When(ma.price_vs_ma200 = "Above", Signal("Price vs MA200", "Bullish", 2))
             \o When(ma.price_vs_ma200 = "Below", Signal("Price vs MA200", "Bearish", 2))
             \o When(rsi_signal = "Oversold", Signal("RSI", "Bullish", 2))
             \o When(rsi_signal = "Overbought", Signal("RSI", "Bearish", 2))
             \o When(HasBullish(macd_sig),
                     Signal("MACD", "Bullish", IF HasCrossover(macd_sig) THEN 3 ELSE 2))
             \o When(~HasBullish(macd_sig) /\ HasBearish(macd_sig),
                     Signal("MACD", "Bearish", IF HasCrossover(macd_sig) THEN 3 ELSE 2))
             \o When(bb_signal = "Oversold", Signal("Bollinger Bands", "Bullish", 2))
             \o When(bb_signal = "Overbought", Signal("Bollinger Bands", "Bearish", 2))
             \o When(crypto /\ a.market_data.volume_change_pct > 30,
                     Signal("Volume",
                            IF ma.price_vs_ma50 = "Above" THEN "Bullish" ELSE "Bearish", 2))

\* lines 415-422
PeSignal(f) ==
    IF "pe_ratio" \notin DOMAIN f THEN <<>>
    ELSE IF f.pe_ratio < 15 THEN <<Signal("P/E Ratio", "Bullish", 2)>>
    ELSE IF f.pe_ratio > 30 THEN <<Signal("P/E Ratio", "Bearish", 2)>>
    ELSE <<Signal("P/E Ratio", "Neutral", 1)>>

\* lines 425-434
RevenueSignal(f) ==
    IF "revenue_growth_pct" \notin DOMAIN f THEN <<>>
    ELSE IF f.revenue_growth_pct > 20 THEN <<Signal("Revenue Growth", "Bullish", 3)>>
    ELSE IF f.revenue_growth_pct > 10 THEN <<Signal("Revenue Growth", "Bullish", 2)>>
    ELSE IF f.revenue_growth_pct < 0 THEN <<Signal("Revenue Growth", "Bearish", 2)>>
    ELSE <<Signal("Revenue Growth", "Neutral", 1)>>

\* lines 439 / 450: x * 100 if x < 1 else x, for x in hundredths, giving
\* hundredths of a percent
AsPercent(x) == IF x < 100 THEN x * 100 ELSE x

\* lines 437-445
MarginSignal(f) ==
    IF "profit_margins" \notin DOMAIN f THEN <<>>
    ELSE IF AsPercent(f.profit_margins) > 2000 THEN <<Signal("Profit Margins", "Bullish", 2)>>
    ELSE IF AsPercent(f.profit_margins) < 500 THEN <<Signal("Profit Margins", "Bearish", 2)>>
    ELSE <<Signal("Profit Margins", "Neutral", 1)>>

\* lines 448-456
RoeSignal(f) ==
    IF "return_on_equity" \notin DOMAIN f THEN <<>>
    ELSE IF AsPercent(f.return_on_equity) > 2000 THEN <<Signal("Return on Equity", "Bullish", 2)>>
    ELSE IF AsPercent(f.return_on_equity) < 1000 THEN <<Signal("Return on Equity", "Bearish", 1)>>
    ELSE <<Signal("Return on Equity", "Neutral", 1)>>

\* lines 459-466
DebtSignal(f) ==
    IF "debt_to_equity" \notin DOMAIN f THEN <<>>
    ELSE IF f.debt_to_equity > 200 THEN <<Signal("Debt to Equity", "Bearish", 2)>>
    ELSE IF f.debt_to_equity < 50 THEN <<Signal("Debt to Equity", "Bullish", 1)>>
    ELSE <<Signal("Debt to Equity", "Neutral", 1)>>

\* lines 479-493: rec_weights
RecWeights ==
    [g \in {"Strong Buy", "Buy", "Outperform", "Overweight", "Hold", "Neutral",
            "Perform", "Market Perform", "Equal-Weight", "Underperform",
            "Underweight", "Sell", "Strong Sell"} |->
        IF g = "Strong Buy" THEN 2
        ELSE IF g \in {"Buy", "Outperform", "Overweight"} THEN 1
        ELSE IF g \in {"Underperform", "Underweight", "Sell"} THEN -1
        ELSE IF g = "Strong Sell" THEN -2
        ELSE 0]

RECURSIVE SumOver(_, _)
\* the sum of f[k] over the keys k in S
SumOver(f, S) ==
    IF S = {} THEN 0
    ELSE LET k == CHOOSE x \in S : TRUE IN f[k] + SumOver(f, S \ {k})

\* lines 471-513: analyst_signal; score > 0.5 is 2 * total_weights > total_recs
AnalystSignal(a) ==
    IF ~IsDict(a)
    THEN Signal("Analyst Consensus", "Error", 0)
    ELSE IF ~IsDict(a.analyst_recommendations)
            \/ "recommendation_counts" \notin DOMAIN a.analyst_recommendations
    THEN Signal("Analyst Consensus", "Neutral", 2)
    ELSE LET rec_counts == a.analyst_recommendations.recommendation_counts
             known == (DOMAIN rec_counts) \cap (DOMAIN RecWeights)
             total_weights == SumOver([g \in known |-> RecWeights[g] * rec_counts[g]], known)
             total_recs == SumOver(rec_counts, known)
         IN  IF total_recs > 0 /\ 2 * total_weights > total_recs
             THEN Signal("Analyst Consensus", "Bullish", 3)
             ELSE IF total_recs > 0 /\ 2 * total_weights < 0 - total_recs
             THEN Signal("Analyst Consensus", "Bearish", 3)
             ELSE Signal("Analyst Consensus", "Neutral", 2)

\* lines 409-516: fund_signals with the analyst signal appended
FundSignals(a) ==
    (IF ~IsDict(a)
     THEN <<Signal("Error", "Error processing fundamental signals", 0)>>
     ELSE IF ~IsDict(a.fundamentals)
     THEN <<Signal("Error", "Fundamental data unavailable", 0)>>
     ELSE PeSignal(a.fundamentals) \o RevenueSignal(a.fundamentals)
          \o MarginSignal(a.fundamentals) \o RoeSignal(a.fundamentals)
          \o DebtSignal(a.fundamentals))
    \o <<AnalystSignal(a)>>

RECURSIVE SignalScore(_, _)
\* lines 519-526: the score of the first n signals
SignalScore(signals, n) ==
    IF n = 0 THEN 0
    ELSE SignalScore(signals, n - 1)
         + (IF signals[n].signal = "Bullish" THEN signals[n].weight
            ELSE IF signals[n].signal = "Bearish" THEN 0 - signals[n].weight
            ELSE 0)

RECURSIVE WeightSumBullishOnly(_, _)
\* WeightSum with the weight added in the bullish branch only
WeightSumBullishOnly(signals, n) ==
    IF n = 0 THEN 0
    ELSE WeightSumBullishOnly(signals, n - 1)
         + (IF signals[n].signal = "Bullish" THEN signals[n].weight ELSE 0)

RECURSIVE WeightSum(_, _)
\* lines 519-526: the weight sum of the first n signals
WeightSum(signals, n) ==
    IF n = 0 THEN 0 ELSE WeightSum(signals, n - 1) + signals[n].weight

\* lines 538-539 / 1104: (score / weight_sum) * 10, in thousandths
Normalized(score, weight_sum) ==
    IF weight_sum = 0 THEN 0 ELSE Quot(score * 10000, weight_sum)

\* lines 542-550: tech_weight and fund_weight, in tenths
EquityTechWeight(rt) == IF rt = "low" THEN 3 ELSE IF rt = "high" THEN 7 ELSE 5
EquityFundWeight(rt) == IF rt = "low" THEN 7 ELSE IF rt = "high" THEN 3 ELSE 5

\* lines 1107-1112: tech_weight, in tenths
CryptoTechWeight(rt) ==
    IF YahooRiskClass(rt) = "low" THEN 4 ELSE IF YahooRiskClass(rt) = "high" THEN 10 ELSE 7

\* Bitcoin's daily change in percent; the market data may also be missing
BtcTrends == {-6, -3, 0, 3, 6}

\* lines 1120-1130
MarketAdj(btc_trend) ==
    IF btc_trend > 5 THEN 2
    ELSE IF btc_trend > 2 THEN 1
    ELSE IF btc_trend < -5 THEN -2
    ELSE IF btc_trend < -2 THEN -1
    ELSE 0

\* lines 554-569: the label of a combined_score in thousandths
EquityRecommendation(score) ==
    IF score > 6000 THEN "Strong Buy"
    ELSE IF score > 3000 THEN "Buy"
    ELSE IF score > 0 THEN "Mild Buy"
    ELSE IF score > -3000 THEN "Hold"
    ELSE IF score > -6000 THEN "Sell"
    ELSE "Strong Sell"

\* CryptoLabel with every boundary given to the upper label
CryptoLabelInclusive(score) ==
    IF score >= 6000 THEN "Strong Buy"
    ELSE IF score >= 3000 THEN "Buy"
    ELSE IF score >= 0 THEN "Mild Buy"
    ELSE IF score >= -3000 THEN "Hold"
    ELSE IF score >= -6000 THEN "Sell"
    ELSE "Strong Sell"

\* lines 1163-1178: the label of a combined_score in thousandths
CryptoLabel(score) ==
    IF score > 6000 THEN "Strong Buy"
    ELSE IF score > 3000 THEN "Buy"
    ELSE IF score > 0 THEN "Mild Buy"
    ELSE IF score > -3000 THEN "Hold"
    ELSE IF score > -6000 THEN "Sell"
    ELSE "Strong Sell"

\* lines 556, 675 / 1165, 1291: round(abs(combined_score) / 10 * 100)
ConfidenceScore(score) == RoundTo(Abs(score), 100) \div 100

\* annualized volatility of the one-year history, in thousandths
EquityVolatilities == {100, 300, 800}

\* lines 586-600: [upside, downside] before the risk-tolerance scaling
EquityPotential(score, volatility) ==
    LET volatility_factor == Min(Max(volatility, 150), 500)
        swing == Quot(score * volatility_factor * 2, 100)
    IN  [upside |-> Max(10000 + swing, 2000),
         downside |-> Min(Max(swing - 10000, 2000), 50000)]

\* lines 603-608
EquityRiskScaled(p, rt) ==
    IF rt = "low"
    THEN [upside |-> Quot(p.upside * 8, 10), downside |-> Quot(p.downside * 12, 10)]
    ELSE IF rt = "high"
    THEN [upside |-> Quot(p.upside * 12, 10), downside |-> Quot(p.downside * 8, 10)]
    ELSE p

\* lines 1190-1207: [upside, downside] before the risk-tolerance scaling;
\* volatility_annual is a percentage
CryptoPotential(score, volatility_annual) ==
    LET volatility_factor == Min(Max(volatility_annual * 10, 300), 1000)
        swing == Quot(score * volatility_factor * 3, 100)
    IN  [upside |-> Max(15000 + swing, 5000),
         downside |-> Min(Max(swing - 15000, 5000), 90000)]

\* lines 1210-1215
CryptoRiskScaled(p, rt) ==
    IF rt = "low"
    THEN [upside |-> Quot(p.upside * 7, 10), downside |-> Quot(p.downside * 13, 10)]
    ELSE IF rt = "high"
    THEN [upside |-> Quot(p.upside * 13, 10), downside |-> Quot(p.downside * 7, 10)]
    ELSE p

\* lines 319 / 1033: the analysis is fetched and computed
AdvAnalyze ==
    /\ apc = "start"
    /\ IF asset = "equity"
       THEN \E env \in EquityEnvs(history) : analysis' = extract_financial_insights(env)
       ELSE \E env \in CryptoEnvs(history) : analysis' = CryptoAnalysis(env)
    /\ apc' = "analyzed"
    /\ UNCHANGED <<asset, history, tech_signals, fund_signals, tech_weight_sum, fund_weight_sum,
                   tech_normalized, fund_normalized, combined_score, potential_upside,
                   potential_downside, advice, recVars, chatVars, cmpVars, cmcapiVars, symVars, ctcVars, indVars, tvaVars>>

\* lines 321-322 / 1035-1036: an analysis str holding "Error" is returned
AdvReturnAnalysisError ==
    /\ apc = "analyzed"
    /\ IsErrorStr(analysis)
    /\ advice' = analysis
    /\ apc' = "done"
    /\ UNCHANGED <<asset, history, analysis, tech_signals, fund_signals, tech_weight_sum,
                   fund_weight_sum, tech_normalized, fund_normalized, combined_score,
                   potential_upside, potential_downside, recVars, chatVars, cmpVars, cmcapiVars, symVars, ctcVars, indVars, tvaVars>>

\* lines 359-406 / 1039-1091
AdvTechSignals ==
    /\ apc = "analyzed"
    /\ ~IsErrorStr(analysis)
    /\ tech_signals' = TechSignals(analysis, asset = "crypto")
    /\ apc' = IF asset = "equity" THEN "fund" ELSE "score"
    /\ UNCHANGED <<asset, history, analysis, fund_signals, tech_weight_sum, fund_weight_sum,
                   tech_normalized, fund_normalized, combined_score, potential_upside,
                   potential_downside, advice, recVars, chatVars, cmpVars, cmcapiVars, symVars, ctcVars, indVars, tvaVars>>

\* lines 408-516 (generate_investment_advice only)
AdvFundSignals ==
    /\ apc = "fund"
    /\ fund_signals' = FundSignals(analysis)
    /\ apc' = "score"
    /\ UNCHANGED <<asset, history, analysis, tech_signals, tech_weight_sum, fund_weight_sum,
                   tech_normalized, fund_normalized, combined_score, potential_upside,
                   potential_downside, advice, recVars, chatVars, cmpVars, cmcapiVars, symVars, ctcVars, indVars, tvaVars>>

\* lines 518-552 / 1093-1114
AdvScore ==
    /\ apc = "score"
    /\ tech_weight_sum' = WeightSum(tech_signals, Len(tech_signals))
    /\ fund_weight_sum' = IF asset = "equity"
                          THEN WeightSum(fund_signals, Len(fund_signals))
                          ELSE fund_weight_sum
    /\ tech_normalized' = Normalized(SignalScore(tech_signals, Len(tech_signals)),
                                     tech_weight_sum')
    /\ fund_normalized' =
          IF asset = "equity"
          THEN Normalized(SignalScore(fund_signals, Len(fund_signals)), fund_weight_sum')
          ELSE fund_normalized
    /\ combined_score' =
          IF asset = "equity"
          THEN Quot(tech_normalized' * EquityTechWeight(risk_tolerance)
                    + fund_normalized' * EquityFundWeight(risk_tolerance), 10)
          ELSE Quot(tech_normalized' * CryptoTechWeight(risk_tolerance), 10)
    /\ apc' = IF asset = "equity" THEN "label" ELSE "market"
    /\ UNCHANGED <<asset, history, analysis, tech_signals, fund_signals, potential_upside,
                   potential_downside, advice, recVars, chatVars, cmpVars, cmcapiVars, symVars, ctcVars, indVars, tvaVars>>

\* lines 1116-1143 with the market data at hand
AdvMarketAdjust ==
    /\ apc = "market"
    /\ \E btc_trend \in BtcTrends :
          LET adjusted == combined_score + 1000 * MarketAdj(btc_trend)
          IN  IF "btc_comparison" \notin DOMAIN analysis
              THEN /\ combined_score' = adjusted
                   /\ UNCHANGED tech_signals
              ELSE IF analysis.btc_comparison.outperforming_btc
              THEN /\ combined_score' = adjusted + 1000
                   /\ tech_signals' = Append(tech_signals,
                                             Signal("BTC Comparison", "Bullish", 2))
              ELSE /\ combined_score' = adjusted - 500
                   /\ tech_signals' = Append(tech_signals,
                                             Signal("BTC Comparison", "Bearish", 1))
    /\ apc' = "volatility"
    /\ UNCHANGED <<asset, history, analysis, fund_signals, tech_weight_sum, fund_weight_sum,
                   tech_normalized, fund_normalized, potential_upside,
                   potential_downside, advice, recVars, chatVars, cmpVars, cmcapiVars, symVars, ctcVars, indVars, tvaVars>>

\* lines 1117-1119, 1142-1143: the market data cannot be read, the block is left
AdvMarketUnavailable ==
    /\ apc = "market"
    /\ apc' = "volatility"
    /\ UNCHANGED <<asset, history, analysis, tech_signals, fund_signals, tech_weight_sum,
                   fund_weight_sum, tech_normalized, fund_normalized, combined_score,
                   potential_upside, potential_downside, advice, recVars, chatVars,
                   cmpVars, cmcapiVars, symVars, ctcVars, indVars, tvaVars>>

\* lines 1145-1161
AdvVolatilityAdjust ==
    /\ apc = "volatility"
    /\ LET volatility == analysis.price_data.volatility_annual
       IN  combined_score' =
              IF risk_tolerance = "low" /\ volatility > 70 THEN combined_score - 2000
              ELSE IF risk_tolerance = "high" /\ volatility > 70 THEN combined_score + 1000
              ELSE combined_score
    /\ tech_signals' = Append(tech_signals, Signal("Volatility", "Neutral", 2))
    /\ apc' = "label"
    /\ UNCHANGED <<asset, history, analysis, fund_signals, tech_weight_sum, fund_weight_sum,
                   tech_normalized, fund_normalized, potential_upside,
                   potential_downside, advice, recVars, chatVars, cmpVars, cmcapiVars, symVars, ctcVars, indVars, tvaVars>>

\* AdvOuterRaise without the outer handler: the TypeError leaves the scorer
AdvOuterRaiseUnhandled ==
    /\ apc = "label"
    /\ ~IsDict(analysis)
    /\ advice' = [raised |-> "TypeError"]
    /\ apc' = "done"
    /\ UNCHANGED <<asset, history, analysis, tech_signals, fund_signals, tech_weight_sum,
                   fund_weight_sum, tech_normalized, fund_normalized, combined_score,
                   potential_upside, potential_downside, recVars, chatVars, cmpVars, cmcapiVars, symVars, ctcVars, indVars, tvaVars>>

\* lines 572 / 1181: analysis["price_data"] on a str raises, and the outer
\* handler of lines 694-695 / 1309-1310 returns its str
AdvOuterRaise ==
    /\ apc = "label"
    /\ ~IsDict(analysis)
    /\ advice' = [str |-> "Error generating investment advice"]
    /\ apc' = "done"
    /\ UNCHANGED <<asset, history, analysis, tech_signals, fund_signals, tech_weight_sum,
                   fund_weight_sum, tech_normalized, fund_normalized, combined_score,
                   potential_upside, potential_downside, recVars, chatVars, cmpVars, cmcapiVars, symVars, ctcVars, indVars, tvaVars>>

\* lines 579-608 / 1188-1215
AdvPotential ==
    /\ apc = "label"
    /\ IsDict(analysis)
    /\ LET p == IF asset = "equity"
                THEN {EquityRiskScaled(EquityPotential(combined_score, v), risk_tolerance) :
                        v \in EquityVolatilities}
                ELSE {CryptoRiskScaled(
                        CryptoPotential(combined_score,
                                        analysis.price_data.volatility_annual),
                        risk_tolerance)}
       IN  \E q \in p : /\ potential_upside' = q.upside
                        /\ potential_downside' = q.downside
    /\ apc' = "compile"
    /\ UNCHANGED <<asset, history, analysis, tech_signals, fund_signals, tech_weight_sum,
                   fund_weight_sum, tech_normalized, fund_normalized, combined_score,
                   advice, recVars, chatVars, cmpVars, cmcapiVars, symVars, ctcVars, indVars, tvaVars>>

\* lines 581, 610-612: the one-year history cannot be read, the defaults stay
AdvPotentialDefault ==
    /\ apc = "label"
    /\ IsDict(analysis)
    /\ asset = "equity"
    /\ potential_upside' = 10000
    /\ potential_downside' = 10000
    /\ apc' = "compile"
    /\ UNCHANGED <<asset, history, analysis, tech_signals, fund_signals, tech_weight_sum,
                   fund_weight_sum, tech_normalized, fund_normalized, combined_score,
                   advice, recVars, chatVars, cmpVars, cmcapiVars, symVars, ctcVars, indVars, tvaVars>>

\* lines 671-692 / 1287-1307
AdvReturn ==
    /\ apc = "compile"
    /\ advice' =
          [recommendation |-> IF asset = "equity"
                              THEN EquityRecommendation(combined_score)
                              ELSE CryptoLabel(combined_score),
           confidence_score |-> ConfidenceScore(combined_score),
           potential_upside |-> RoundTo(potential_upside, 100),
           potential_downside |-> RoundTo(potential_downside, 100),
           technical_signals |-> tech_signals,
           technical_score |-> RoundTo(tech_normalized, 10),
           combined_score |-> RoundTo(combined_score, 10),
           risk_tolerance |-> risk_tolerance]
    /\ apc' = "done"
    /\ UNCHANGED <<asset, history, analysis, tech_signals, fund_signals, tech_weight_sum,
                   fund_weight_sum, tech_normalized, fund_normalized, combined_score,
                   potential_upside, potential_downside, recVars, chatVars, cmpVars, cmcapiVars, symVars, ctcVars, indVars, tvaVars>>

InitAdv ==
    /\ apc = "start"
    /\ asset \in {"equity", "crypto"}
    /\ history \in Histories
    /\ analysis = None
    /\ tech_signals = <<>>
    /\ fund_signals = <<>>
    /\ tech_weight_sum = 0
    /\ fund_weight_sum = 0
    /\ tech_normalized = 0
    /\ fund_normalized = 0
    /\ combined_score = 0
    /\ potential_upside = 0
    /\ potential_downside = 0
    /\ advice = None
    /\ rpc = "idle"
    /\ risk_tolerance \in RiskTolerances
    /\ cmcEnv = [kind |-> "no_key"]
    /\ yfEnv = [kind |-> "error"]
    /\ cmc_recommendation = None
    /\ tv_analysis = None
    /\ yf_analysis = None
    /\ result = None
    /\ calls = <<>>
    /\ cpc = "idle"
    /\ is_windows = FALSE
    /\ body = [kind |-> "invalid_json"]
    /\ agentBehaviour = "returns"
    /\ alarm = "off"
    /\ agentQueries = <<>>
    /\ caught = "nothing"
    /\ response = None
    /\ kpc = "idle"
    /\ fn = "compare_stocks"
    /\ symbols = <<>>
    /\ outcome = <<>>
    /\ idx = 0
    /\ results = <<>>
    /\ performance_data = <<>>
    /\ volatility_data = <<>>
    /\ returned = None
    /\ mpc = "idle"
    /\ entry = "get_cmc_crypto_data"
    /\ api_key = TRUE
    /\ provider = <<>>
    /\ responses = <<>>
    /\ cmc_out = None
    /\ npc = "idle"
    /\ raw_symbol = <<>>
    /\ clean_symbol = <<>>
    /\ cmc_symbol = <<>>
    /\ tv_symbol = <<>>
    /\ tpc = "idle"
    /\ tickers = <<>>
    /\ asset_type = "auto"
    /\ closeOut = <<>>
    /\ comparison_data = None
    /\ data_source = None
    /\ key_metrics = <<>>
    /\ price_data = <<>>
    /\ correlation_matrix = <<>>
    /\ volatility_metrics = <<>>
    /\ ctc_results = None
    /\ ipc = "idle"
    /\ series = None
    /\ golden_cross = FALSE
    /\ death_cross = FALSE
    /\ macd_signal = ""
    /\ ind_analysis = None
    /\ ind_signals = <<>>
    /\ vpc = "idle"
    /\ tva_raw = <<>>
    /\ interval = "1d"
    /\ scanEnv = <<>>
    /\ tva_requests = <<>>
    /\ tva_tv_symbol = None
    /\ tva_result = None

NextAdv ==
    \/ AdvAnalyze
    \/ AdvReturnAnalysisError
    \/ AdvTechSignals
    \/ AdvFundSignals
    \/ AdvScore
    \/ AdvMarketAdjust
    \/ AdvMarketUnavailable
    \/ AdvVolatilityAdjust
    \/ AdvOuterRaise
    \/ AdvPotential
    \/ AdvPotentialDefault
    \/ AdvReturn

SpecAdv == InitAdv /\ [][NextAdv]_vars

(***************************************************************************)
(* The CoinMarketCap adapter: get_cmc_crypto_data, get_cmc_crypto_analysis,*)
(* compare_cmc_cryptocurrencies and get_cmc_investment_recommendation over *)
(* the CoinMarketCapAPI methods.                                           *)
(***************************************************************************)
EntryPoints == {"get_cmc_crypto_data", "get_cmc_crypto_analysis",
                "compare_cmc_cryptocurrencies", "get_cmc_investment_recommendation"}

Endpoints == {"info", "quotes", "market_pairs", "ohlcv"}

\* what one request to the provider does: a 2xx payload that holds the symbol,
\* a non-2xx status (raise_for_status raises HTTPError, a RequestException),
\* a 2xx payload with "data" but without the symbol, a 2xx payload without "data"
ProviderOutcomes == {"ok", "http_error", "no_symbol", "no_data"}

\* the endpoints an entry point requests, in the order of its code
EndpointPlan(e) ==
    IF e = "get_cmc_crypto_data" THEN <<"info", "quotes", "market_pairs", "ohlcv">>
    ELSE IF e = "get_cmc_investment_recommendation" THEN <<"quotes", "info">>
    ELSE <<"quotes">>

\* CoinMarketCapAPI.get_cryptocurrency_info / _quotes / _market_pairs / _ohlcv:
\* the data dict, or an error dict for a RequestException and for a payload
\* without the symbol
ApiMethod(endpoint, out) ==
    IF out = "ok" THEN [data |-> [endpoint |-> endpoint], timestamp |-> "now"]
    ELSE IF out = "http_error" THEN [error |-> "Error fetching"]
    ELSE [error |-> "No data found for symbol"]

\* the try block of compare_cmc_cryptocurrencies on its own session.get
CompareCmcBody(out) ==
    IF out = "http_error" THEN [error |-> "Error comparing cryptocurrencies"]
    ELSE IF out = "no_data" THEN [error |-> "No data returned from CoinMarketCap API"]
    ELSE [timestamp |-> "now",
          comparison_data |->
              [SYM |-> IF out = "ok" THEN [name |-> "Name", price_usd |-> 1]
                       ELSE [error |-> "No data found for symbol"]]]

\* the dict get_cmc_crypto_data builds: the four endpoint results side by side
DataOrError(r) == IF "error" \in DOMAIN r THEN [error |-> r.error] ELSE r.data

CryptoDataResult(rs) ==
    [symbol |-> "SYM", timestamp |-> "now",
     info |-> DataOrError(rs.info), quotes |-> DataOrError(rs.quotes),
     market_pairs |-> DataOrError(rs.market_pairs), ohlcv |-> DataOrError(rs.ohlcv)]

\* the dict get_cmc_crypto_analysis builds from a quote
CryptoAnalysisResult == [symbol |-> "SYM", name |-> "Name", sentiment |-> "Neutral",
                         timestamp |-> "now"]

\* CoinMarketCapAPI(): the key is there
CmcConstruct ==
    /\ mpc = "start"
    /\ api_key
    /\ mpc' = "fetch"
    /\ UNCHANGED <<entry, api_key, provider, responses, cmc_out, recVars, chatVars, cmpVars, advVars, symVars, ctcVars, indVars, tvaVars>>

\* CoinMarketCapAPI(): no key given and none configured, __init__ raises
\* ValueError, and the entry point has no handler around the construction
CmcConstructRaises ==
    /\ mpc = "start"
    /\ ~api_key
    /\ cmc_out' = [raised |-> "ValueError: CoinMarketCap API key is required"]
    /\ mpc' = "done"
    /\ UNCHANGED <<entry, api_key, provider, responses, recVars, chatVars, cmpVars, advVars, symVars, ctcVars, indVars, tvaVars>>

\* the quotes came back as an error dict and the entry point tests for it
QuotesErrorReturned ==
    /\ entry \in {"get_cmc_crypto_analysis", "get_cmc_investment_recommendation"}
    /\ "quotes" \in DOMAIN responses
    /\ "error" \in DOMAIN responses.quotes

\* the next api.get_cryptocurrency_* call of the entry point
CmcFetch ==
    /\ mpc = "fetch"
    /\ entry # "compare_cmc_cryptocurrencies"
    /\ ~QuotesErrorReturned
    /\ LET plan == EndpointPlan(entry)
           n == Cardinality(DOMAIN responses)
       IN  /\ n < Len(plan)
           /\ responses' = DictSet(responses, plan[n + 1],
                                   ApiMethod(plan[n + 1], provider[plan[n + 1]]))
    /\ UNCHANGED <<mpc, entry, api_key, provider, cmc_out, recVars, chatVars, cmpVars, advVars, symVars, ctcVars, indVars, tvaVars>>

\* if "error" in quotes: return quotes
CmcReturnQuotesError ==
    /\ mpc = "fetch"
    /\ QuotesErrorReturned
    /\ cmc_out' = [returned |-> responses.quotes]
    /\ mpc' = "done"
    /\ UNCHANGED <<entry, api_key, provider, responses, recVars, chatVars, cmpVars, advVars, symVars, ctcVars, indVars, tvaVars>>

\* the normal return of get_cmc_crypto_data, get_cmc_crypto_analysis and
\* get_cmc_investment_recommendation
CmcReturn ==
    /\ mpc = "fetch"
    /\ entry # "compare_cmc_cryptocurrencies"
    /\ ~QuotesErrorReturned
    /\ Cardinality(DOMAIN responses) = Len(EndpointPlan(entry))
    /\ \/ /\ entry = "get_cmc_crypto_data"
          /\ cmc_out' = [returned |-> CryptoDataResult(responses)]
       \/ /\ entry = "get_cmc_crypto_analysis"
          /\ cmc_out' = [returned |-> CryptoAnalysisResult]
       \/ /\ entry = "get_cmc_investment_recommendation"
          /\ \E env \in {e \in CmcEnvs : e.kind = "ok"} :
                cmc_out' = [returned |->
                                get_cmc_investment_recommendation(env, risk_tolerance)]
    /\ mpc' = "done"
    /\ UNCHANGED <<entry, api_key, provider, responses, recVars, chatVars, cmpVars, advVars, symVars, ctcVars, indVars, tvaVars>>

\* compare_cmc_cryptocurrencies: the request, the per-symbol loop, the returns
CmcCompare ==
    /\ mpc = "fetch"
    /\ entry = "compare_cmc_cryptocurrencies"
    /\ cmc_out' = [returned |-> CompareCmcBody(provider["quotes"])]
    /\ mpc' = "done"
    /\ UNCHANGED <<entry, api_key, provider, responses, recVars, chatVars, cmpVars, advVars, symVars, ctcVars, indVars, tvaVars>>

InitCmcApi ==
    /\ mpc = "start"
    /\ entry \in EntryPoints
    /\ api_key \in BOOLEAN
    /\ provider \in [Endpoints -> ProviderOutcomes]
    /\ responses = <<>>
    /\ cmc_out = None
    /\ rpc = "idle"
    /\ risk_tolerance = "moderate"
    /\ cmcEnv = [kind |-> "no_key"]
    /\ yfEnv = [kind |-> "error"]
    /\ cmc_recommendation = None
    /\ tv_analysis = None
    /\ yf_analysis = None
    /\ result = None
    /\ calls = <<>>
    /\ cpc = "idle"
    /\ is_windows = FALSE
    /\ body = [kind |-> "invalid_json"]
    /\ agentBehaviour = "returns"
    /\ alarm = "off"
    /\ agentQueries = <<>>
    /\ caught = "nothing"
    /\ response = None
    /\ kpc = "idle"
    /\ fn = "compare_stocks"
    /\ symbols = <<>>
    /\ outcome = <<>>
    /\ idx = 0
    /\ results = <<>>
    /\ performance_data = <<>>
    /\ volatility_data = <<>>
    /\ returned = None
    /\ apc = "idle"
    /\ asset = "equity"
    /\ history = None
    /\ analysis = None
    /\ tech_signals = <<>>
    /\ fund_signals = <<>>
    /\ tech_weight_sum = 0
    /\ fund_weight_sum = 0
    /\ tech_normalized = 0
    /\ fund_normalized = 0
    /\ combined_score = 0
    /\ potential_upside = 0
    /\ potential_downside = 0
    /\ advice = None
    /\ npc = "idle"
    /\ raw_symbol = <<>>
    /\ clean_symbol = <<>>
    /\ cmc_symbol = <<>>
    /\ tv_symbol = <<>>
    /\ tpc = "idle"
    /\ tickers = <<>>
    /\ asset_type = "auto"
    /\ closeOut = <<>>
    /\ comparison_data = None
    /\ data_source = None
    /\ key_metrics = <<>>
    /\ price_data = <<>>
    /\ correlation_matrix = <<>>
    /\ volatility_metrics = <<>>
    /\ ctc_results = None
    /\ ipc = "idle"
    /\ series = None
    /\ golden_cross = FALSE
    /\ death_cross = FALSE
    /\ macd_signal = ""
    /\ ind_analysis = None
    /\ ind_signals = <<>>
    /\ vpc = "idle"
    /\ tva_raw = <<>>
    /\ interval = "1d"
    /\ scanEnv = <<>>
    /\ tva_requests = <<>>
    /\ tva_tv_symbol = None
    /\ tva_result = None

NextCmcApi ==
    \/ CmcConstruct
    \/ CmcConstructRaises
    \/ CmcFetch
    \/ CmcReturnQuotesError
    \/ CmcReturn
    \/ CmcCompare

SpecCmcApi == InitCmcApi /\ [][NextCmcApi]_vars

(***************************************************************************)
(* Crypto symbol clean-up: symbol.upper().replace("-USD", "")              *)
(* .replace("USD", ""), as get_buy_sell_recommendation applies it and the  *)
(* CoinMarketCap and TradingView functions it calls apply it again.        *)
(* A str is the sequence of its characters.                                *)
(***************************************************************************)
MaxSymbolLen == 6

\* the characters of "-USD" and "USDT", and one lower-case letter
Chars == {"U", "S", "D", "T", "-", "b"}

SymbolStrings == UNION {[1..n -> Chars] : n \in 0..MaxSymbolLen}

\* str.upper()
UpperChar(c) == IF c = "b" THEN "B" ELSE c
Upper(s) == [i \in 1..Len(s) |-> UpperChar(s[i])]

\* str.replace(old, ""): every non-overlapping occurrence of old, scanning
\* from the left, is removed
RECURSIVE RemoveAll(_, _)
RemoveAll(s, old) ==
    IF Len(s) < Len(old) THEN s
    ELSE IF SubSeq(s, 1, Len(old)) = old
         THEN RemoveAll(SubSeq(s, Len(old) + 1, Len(s)), old)
         ELSE <<s[1]>> \o RemoveAll(Tail(s), old)

DashUsd == <<"-", "U", "S", "D">>
Usd == <<"U", "S", "D">>

\* symbol.upper().replace("-USD", "").replace("USD", "")
CleanSymbol(s) == RemoveAll(RemoveAll(Upper(s), DashUsd), Usd)

\* agentic-rag.py line 286
GbsrCleanSymbol ==
    /\ npc = "start"
    /\ clean_symbol' = CleanSymbol(raw_symbol)
    /\ npc' = "cleaned"
    /\ UNCHANGED <<raw_symbol, cmc_symbol, tv_symbol, recVars, chatVars, cmpVars, advVars, cmcapiVars, ctcVars, indVars, tvaVars>>

\* coinmarketcap_api.py line 455, on the clean_symbol it is handed
CmcCleanSymbol ==
    /\ npc = "cleaned"
    /\ cmc_symbol' = CleanSymbol(clean_symbol)
    /\ npc' = "cmc"
    /\ UNCHANGED <<raw_symbol, clean_symbol, tv_symbol, recVars, chatVars, cmpVars, advVars, cmcapiVars, ctcVars, indVars, tvaVars>>

\* tradingview_api.py lines 507-508, on the clean_symbol it is handed
TvCleanSymbol ==
    /\ npc = "cmc"
    /\ tv_symbol' = <<"BINANCE:">> \o CleanSymbol(clean_symbol) \o <<"U", "S", "D", "T">>
    /\ npc' = "done"
    /\ UNCHANGED <<raw_symbol, clean_symbol, cmc_symbol, recVars, chatVars, cmpVars, advVars, cmcapiVars, ctcVars, indVars, tvaVars>>

InitSym ==
    /\ npc = "start"
    /\ raw_symbol \in SymbolStrings
    /\ clean_symbol = <<>>
    /\ cmc_symbol = <<>>
    /\ tv_symbol = <<>>
    /\ rpc = "idle"
    /\ risk_tolerance = "moderate"
    /\ cmcEnv = [kind |-> "no_key"]
    /\ yfEnv = [kind |-> "error"]
    /\ cmc_recommendation = None
    /\ tv_analysis = None
    /\ yf_analysis = None
    /\ result = None
    /\ calls = <<>>
    /\ cpc = "idle"
    /\ is_windows = FALSE
    /\ body = [kind |-> "invalid_json"]
    /\ agentBehaviour = "returns"
    /\ alarm = "off"
    /\ agentQueries = <<>>
    /\ caught = "nothing"
    /\ response = None
    /\ kpc = "idle"
    /\ fn = "compare_stocks"
    /\ symbols = <<>>
    /\ outcome = <<>>
    /\ idx = 0
    /\ results = <<>>
    /\ performance_data = <<>>
    /\ volatility_data = <<>>
    /\ returned = None
    /\ apc = "idle"
    /\ asset = "equity"
    /\ history = None
    /\ analysis = None
    /\ tech_signals = <<>>
    /\ fund_signals = <<>>
    /\ tech_weight_sum = 0
    /\ fund_weight_sum = 0
    /\ tech_normalized = 0
    /\ fund_normalized = 0
    /\ combined_score = 0
    /\ potential_upside = 0
    /\ potential_downside = 0
    /\ advice = None
    /\ mpc = "idle"
    /\ entry = "get_cmc_crypto_data"
    /\ api_key = TRUE
    /\ provider = <<>>
    /\ responses = <<>>
    /\ cmc_out = None
    /\ tpc = "idle"
    /\ tickers = <<>>
    /\ asset_type = "auto"
    /\ closeOut = <<>>
    /\ comparison_data = None
    /\ data_source = None
    /\ key_metrics = <<>>
    /\ price_data = <<>>
    /\ correlation_matrix = <<>>
    /\ volatility_metrics = <<>>
    /\ ctc_results = None
    /\ ipc = "idle"
    /\ series = None
    /\ golden_cross = FALSE
    /\ death_cross = FALSE
    /\ macd_signal = ""
    /\ ind_analysis = None
    /\ ind_signals = <<>>
    /\ vpc = "idle"
    /\ tva_raw = <<>>
    /\ interval = "1d"
    /\ scanEnv = <<>>
    /\ tva_requests = <<>>
    /\ tva_tv_symbol = None
    /\ tva_result = None

NextSym ==
    \/ GbsrCleanSymbol
    \/ CmcCleanSymbol
    \/ TvCleanSymbol

SpecSym == InitSym /\ [][NextSym]_vars

(***************************************************************************)
(* comprehensive_ticker_comparison (src/agentic-rag.py): asset type,       *)
(* basic comparison, correlation matrix, volatility metrics, results and   *)
(* the correlation lines of summary_insights.  A dict is a function on its *)
(* keys; where the code iterates a dict, the key order is that of tickers. *)
(***************************************************************************)
\* the tickers a comparison is drawn from: an equity, a crypto prefix, and a
\* crypto symbol that already carries its "-USD"
Tickers == {"AAPL", "ETH", "SOL-USD"}

\* lists of distinct tickers, the empty list included
TickerLists ==
    {xs \in UNION {[1..n -> Tickers] : n \in 0..Cardinality(Tickers)} :
        \A i, j \in 1..Len(xs) : xs[i] = xs[j] => i = j}

AssetTypes == {"auto", "stocks", "crypto"}

\* what yf.Ticker(t).history(period)["Close"] does: a series of closes, an
\* empty series (the empty frame has its columns), KeyError (the empty frame
\* has no columns), or the fetch raises
CloseOutcomes ==
    {[kind |-> "empty"], [kind |-> "empty_no_columns"], [kind |-> "raise"]}
    \cup {[kind |-> "ok", period_change_pct |-> c, volatility_annual |-> 30] :
            c \in PeriodChanges}

\* lines 602-609: a crypto prefix, or "-USD" in the ticker
LooksCrypto(t) == t \in {"ETH", "SOL-USD"}

DetectAssetType(ts, given) ==
    IF given # "auto" THEN given
    ELSE IF \E i \in 1..Len(ts) : LooksCrypto(ts[i]) THEN "crypto"
    ELSE "stocks"

\* lines 728-729: f"{ticker}-USD" unless "-USD" is in it or it ends with "USD"
UsdTicker(t) ==
    IF t = "AAPL" THEN "AAPL-USD" ELSE IF t = "ETH" THEN "ETH-USD" ELSE t

\* the key a ticker has in price_data
PriceKey(t, type) == IF type = "stocks" THEN t ELSE UsdTicker(t)

\* the history of the ticker raises inside the correlation try block
CloseRaises(o) == o.kind \in {"empty_no_columns", "raise"}

\* DataFrame.corr() of two columns, in hundredths: NaN when a column has no
\* value, 1.0 for a column with itself, and for two series a sample value by
\* whether they move the same way
Corr(a, b, same) ==
    IF a.kind = "empty" \/ b.kind = "empty" THEN NaN
    ELSE IF same THEN Num(100)
    ELSE IF a.period_change_pct = b.period_change_pct THEN Num(80)
    ELSE Num(-60)

\* pd.DataFrame(price_data).corr().round(2).to_dict(): one column per key of
\* price_data, one row per key
CorrToDict(pd) ==
    [c \in DOMAIN pd |-> [r \in DOMAIN pd |-> Corr(pd[c], pd[r], c = r)]]

\* the keys of price_data in insertion order
PriceKeys(ts, type) == [i \in 1..Len(ts) |-> PriceKey(ts[i], type)]

\* the pairs (ticker1, ticker2), ticker1 # ticker2, in the order the two
\* nested loops of lines 834-841 visit them
PairAt(keys, k) ==
    <<keys[((k - 1) \div Len(keys)) + 1], keys[((k - 1) % Len(keys)) + 1]>>

\* corr_value > x and corr_value < x on a float that may be NaN
GreaterThan(v, x) == ~IsNa(v) /\ v.v > x
LessThan(v, x) == ~IsNa(v) /\ v.v < x

RECURSIVE HighestCorr(_, _, _)
\* highest_corr after the first k pairs: (value, ticker1, ticker2)
HighestCorr(cm, keys, k) ==
    IF k = 0 THEN <<-100, "", "">>
    ELSE LET prev == HighestCorr(cm, keys, k - 1)
             p == PairAt(keys, k)
         IN  IF p[1] # p[2] /\ GreaterThan(cm[p[1]][p[2]], prev[1])
             THEN <<cm[p[1]][p[2]].v, p[1], p[2]>>
             ELSE prev

RECURSIVE LowestCorr(_, _, _)
\* lowest_corr after the first k pairs
LowestCorr(cm, keys, k) ==
    IF k = 0 THEN <<200, "", "">>
    ELSE LET prev == LowestCorr(cm, keys, k - 1)
             p == PairAt(keys, k)
         IN  IF p[1] # p[2] /\ LessThan(cm[p[1]][p[2]], prev[1])
             THEN <<cm[p[1]][p[2]].v, p[1], p[2]>>
             ELSE prev

\* lines 828-848: the correlation lines of summary_insights
CorrelationInsights(cm, keys) ==
    IF "error" \in DOMAIN cm
    THEN <<[line |-> "Could not calculate correlation insights"]>>
    ELSE IF DOMAIN cm = {} THEN <<>>
    ELSE LET hi == HighestCorr(cm, keys, Len(keys) * Len(keys))
             lo == LowestCorr(cm, keys, Len(keys) * Len(keys))
         IN  (IF hi[2] # ""
              THEN <<[line |-> "Highest correlation", a |-> hi[2], b |-> hi[3], corr |-> hi[1]]>>
              ELSE <<>>)
             \o (IF lo[2] # ""
                 THEN <<[line |-> "Lowest correlation", a |-> lo[2], b |-> lo[3], corr |-> lo[1]]>>
                 ELSE <<>>)

\* lines 740-759: the volatility metrics of one ticker
VolatilityEntry(o) ==
    IF o.kind = "ok" THEN [annualized_volatility |-> Num(o.volatility_annual), sharpe_ratio |-> Num(1)]
    ELSE IF o.kind = "empty" THEN [annualized_volatility |-> NaN, sharpe_ratio |-> Num(0)]
    ELSE [error |-> "Error calculating volatility metrics"]

\* lines 596-597
CtcNoTickers ==
    /\ tpc = "start"
    /\ tickers = <<>>
    /\ ctc_results' = [error |-> "No tickers provided for comparison"]
    /\ tpc' = "done"
    /\ UNCHANGED <<tickers, asset_type, closeOut, comparison_data, data_source,
                   key_metrics, price_data, correlation_matrix, volatility_metrics,
                   recVars, chatVars, cmpVars, advVars, cmcapiVars, symVars, indVars, tvaVars>>

\* lines 601-609
CtcDetect ==
    /\ tpc = "start"
    /\ tickers # <<>>
    /\ asset_type' = DetectAssetType(tickers, asset_type)
    /\ tpc' = "basic"
    /\ UNCHANGED <<tickers, closeOut, comparison_data, data_source, key_metrics,
                   price_data, correlation_matrix, volatility_metrics, ctc_results,
                   recVars, chatVars, cmpVars, advVars, cmcapiVars, symVars, indVars, tvaVars>>

\* lines 617-649: compare_stocks and the key metrics of every ticker
CtcStocksBasic ==
    /\ tpc = "basic"
    /\ asset_type = "stocks"
    /\ comparison_data' = [t \in {tickers[i] : i \in 1..Len(tickers)} |->
                              StockEntry(closeOut[t])]
    /\ \E sector \in {"Technology", "Unknown"} :
          key_metrics' = [t \in {tickers[i] : i \in 1..Len(tickers)} |->
                             [sector |-> sector]]
    /\ tpc' = "corr"
    /\ UNCHANGED <<tickers, asset_type, closeOut, data_source, price_data,
                   correlation_matrix, volatility_metrics, ctc_results, recVars, chatVars, cmpVars, advVars, cmcapiVars, symVars, indVars, tvaVars>>

\* line 397 of coinmarketcap_api.py and line 702: the ticker without its "-USD"
CleanTicker(t) == IF t = "SOL-USD" THEN "SOL" ELSE t

\* the tickers of a list as a set
TickerSet(ts) == {ts[i] : i \in 1..Len(ts)}

\* compare_cmc_cryptocurrencies when the request succeeds: one entry per
\* cleaned symbol under "comparison_data", an error entry for a symbol the
\* payload does not hold
CmcComparison(ts, out) ==
    [timestamp |-> "now",
     comparison_data |->
        [s \in {CleanTicker(t) : t \in TickerSet(ts)} |->
            LET o == out[CHOOSE t \in TickerSet(ts) : CleanTicker(t) = s]
            IN  IF o.kind = "ok"
                THEN [name |-> s, percent_change_24h |-> 0,
                      percent_change_7d |-> o.period_change_pct]
                ELSE [error |-> "No data found for symbol"]]]

\* compare_cryptos (the fields read here): performance_data and
\* volatility_data hold the symbols whose analysis succeeded
YahooComparison(ts, out) ==
    LET ok == {UsdTicker(t) : t \in {u \in TickerSet(ts) : out[u].kind = "ok"}}
        of(k) == out[CHOOSE t \in TickerSet(ts) : UsdTicker(t) = k]
    IN  [period |-> "1y",
         performance_data |-> [k \in ok |-> [period_change_pct |-> of(k).period_change_pct]],
         volatility_data |-> [k \in ok |-> [volatility_annual |-> of(k).volatility_annual]]]

\* lines 688-720: CoinMarketCap, else TradingView, else Yahoo Finance
CtcCryptoBasic ==
    /\ tpc = "basic"
    /\ asset_type # "stocks"
    /\ \/ /\ data_source' = "CoinMarketCap"
          /\ comparison_data' = CmcComparison(tickers, closeOut)
       \/ /\ data_source' = "TradingView"
          /\ comparison_data' =
                [tradingview_data |->
                    [s \in {CleanTicker(t) : t \in TickerSet(tickers)} |-> [summary |-> "BUY"]]]
       \/ /\ data_source' = "Yahoo Finance"
          /\ \/ comparison_data' = YahooComparison(tickers, closeOut)
             \/ comparison_data' = [str |-> "Error comparing cryptocurrencies"]
    /\ tpc' = "corr"
    /\ UNCHANGED <<tickers, asset_type, closeOut, key_metrics, price_data,
                   correlation_matrix, volatility_metrics, ctc_results, recVars, chatVars, cmpVars, advVars, cmcapiVars, symVars, indVars, tvaVars>>

\* lines 652-666 and 723-738: the close series of every ticker, then the matrix
CtcCorrelation ==
    /\ tpc = "corr"
    /\ LET keys == PriceKeys(tickers, asset_type)
           failing == {i \in 1..Len(tickers) : CloseRaises(closeOut[tickers[i]])}
           stop == IF failing = {} THEN Len(tickers) + 1
                   ELSE CHOOSE i \in failing : \A j \in failing : i <= j
       IN  /\ price_data' = [k \in {keys[i] : i \in 1..(stop - 1)} |->
                                closeOut[tickers[CHOOSE i \in 1..(stop - 1) : keys[i] = k]]]
           /\ correlation_matrix' =
                 IF failing # {} THEN [error |-> "Error calculating correlation"]
                 ELSE CorrToDict(price_data')
    /\ tpc' = IF asset_type = "stocks" THEN "compile" ELSE "volatility"
    /\ UNCHANGED <<tickers, asset_type, closeOut, comparison_data, data_source,
                   key_metrics, volatility_metrics, ctc_results, recVars, chatVars, cmpVars, advVars, cmcapiVars, symVars, indVars, tvaVars>>

\* lines 740-759
CtcVolatility ==
    /\ tpc = "volatility"
    /\ volatility_metrics' =
          [k \in {UsdTicker(tickers[i]) : i \in 1..Len(tickers)} |->
              VolatilityEntry(closeOut[tickers[CHOOSE i \in 1..Len(tickers) :
                                                  UsdTicker(tickers[i]) = k]])]
    /\ tpc' = "compile"
    /\ UNCHANGED <<tickers, asset_type, closeOut, comparison_data, data_source,
                   key_metrics, price_data, correlation_matrix, ctc_results, recVars, chatVars, cmpVars, advVars, cmcapiVars, symVars, indVars, tvaVars>>

\* lines 773-798: the correlation of every fetched series with Bitcoin
BitcoinCorrelation(btc) ==
    IF btc.kind # "ok" /\ btc.kind # "empty"
    THEN [error |-> "Error calculating Bitcoin correlation"]
    ELSE [k \in DOMAIN price_data |-> Corr(price_data[k], btc, FALSE)]

\* lines 676-686 and 762-798: results
CtcCompile ==
    /\ tpc = "compile"
    /\ \/ /\ asset_type = "stocks"
          /\ ctc_results' =
                [comparison_type |-> "stocks", tickers |-> tickers,
                 basic_comparison |-> comparison_data, key_metrics |-> key_metrics,
                 correlation_matrix |-> correlation_matrix,
                 sector_grouping |-> [s \in {key_metrics[t].sector : t \in DOMAIN key_metrics}
                                         |-> {t \in DOMAIN key_metrics : key_metrics[t].sector = s}]]
       \/ /\ asset_type # "stocks"
          /\ \E btc \in CloseOutcomes :
                ctc_results' =
                   [comparison_type |-> "cryptocurrencies", tickers |-> tickers,
                    data_source |-> data_source, basic_comparison |-> comparison_data,
                    correlation_matrix |-> correlation_matrix,
                    volatility_metrics |-> volatility_metrics,
                    bitcoin_correlation |-> BitcoinCorrelation(btc)]
    /\ tpc' = "summary"
    /\ UNCHANGED <<tickers, asset_type, closeOut, comparison_data, data_source,
                   key_metrics, price_data, correlation_matrix, volatility_metrics,
                   recVars, chatVars, cmpVars, advVars, cmcapiVars, symVars, indVars, tvaVars>>

\* line 811: comparison_data.items() on the str compare_cryptocurrencies
\* returned for a failure
PerformersRaise ==
    /\ asset_type # "stocks"
    /\ data_source = "Yahoo Finance"
    /\ "str" \in DOMAIN comparison_data

\* lines 802-816: performers, the (name, percent change) pairs the summary
\* ranks, in the iteration order of the dict they are read from
Performers(type, source, cd, ts) ==
    IF type = "stocks"
    THEN LET with == SelectSeq(ts, LAMBDA t : "percent_change" \in DOMAIN cd[t])
         IN  [i \in 1..Len(with) |-> <<with[i], cd[with[i]].percent_change>>]
    ELSE IF source = "CoinMarketCap"
    THEN IF "cryptocurrencies" \in DOMAIN cd
         THEN LET names == SelectSeq([i \in 1..Len(ts) |-> CleanTicker(ts[i])],
                                     LAMBDA n : n \in DOMAIN cd.cryptocurrencies)
              IN  [i \in 1..Len(names) |->
                      <<names[i], cd.cryptocurrencies[names[i]].percent_change_7d>>]
         ELSE <<>>
    ELSE IF source = "Yahoo Finance"
    THEN LET keys == SelectSeq(<<"performance_data", "volatility_data">>,
                               LAMBDA k : "percent_change" \in DOMAIN cd[k])
         IN  [i \in 1..Len(keys) |-> <<keys[i], cd[keys[i]].percent_change>>]
    ELSE <<>>

\* lines 818-824: performers.sort(key=lambda x: x[1], reverse=True), then the
\* first and the last
PerformerLines(perf) ==
    IF perf = <<>> THEN <<>>
    ELSE LET negChange == [x \in {perf[i] : i \in 1..Len(perf)} |-> 0 - x[2]]
             sorted == SortedBy(perf, Len(perf), negChange)
         IN  <<[line |-> "Best performer", a |-> sorted[1][1], pct |-> sorted[1][2]],
               [line |-> "Worst performer", a |-> sorted[Len(sorted)][1],
                pct |-> sorted[Len(sorted)][2]]>>

\* lines 800-870: summary_insights (the performer and the correlation lines),
\* and the return
CtcSummary ==
    /\ tpc = "summary"
    /\ ~PerformersRaise
    /\ ctc_results' =
          DictSet(ctc_results, "summary_insights",
                  PerformerLines(Performers(asset_type, data_source, comparison_data, tickers))
                  \o CorrelationInsights(correlation_matrix, PriceKeys(tickers, asset_type)))
    /\ tpc' = "done"
    /\ UNCHANGED <<tickers, asset_type, closeOut, comparison_data, data_source,
                   key_metrics, price_data, correlation_matrix, volatility_metrics,
                   recVars, chatVars, cmpVars, advVars, cmcapiVars, symVars, indVars, tvaVars>>

\* lines 872-873: the outer handler
CtcOuterRaise ==
    /\ tpc = "summary"
    /\ PerformersRaise
    /\ ctc_results' = [error |-> "Error in comprehensive comparison"]
    /\ tpc' = "done"
    /\ UNCHANGED <<tickers, asset_type, closeOut, comparison_data, data_source,
                   key_metrics, price_data, correlation_matrix, volatility_metrics,
                   recVars, chatVars, cmpVars, advVars, cmcapiVars, symVars, indVars, tvaVars>>

InitCtc ==
    /\ tpc = "start"
    /\ tickers \in TickerLists
    /\ asset_type \in AssetTypes
    /\ closeOut \in [Tickers -> CloseOutcomes]
    /\ comparison_data = None
    /\ data_source = None
    /\ key_metrics = <<>>
    /\ price_data = <<>>
    /\ correlation_matrix = <<>>
    /\ volatility_metrics = <<>>
    /\ ctc_results = None
    /\ rpc = "idle"
    /\ risk_tolerance = "moderate"
    /\ cmcEnv = [kind |-> "no_key"]
    /\ yfEnv = [kind |-> "error"]
    /\ cmc_recommendation = None
    /\ tv_analysis = None
    /\ yf_analysis = None
    /\ result = None
    /\ calls = <<>>
    /\ cpc = "idle"
    /\ is_windows = FALSE
    /\ body = [kind |-> "invalid_json"]
    /\ agentBehaviour = "returns"
    /\ alarm = "off"
    /\ agentQueries = <<>>
    /\ caught = "nothing"
    /\ response = None
    /\ kpc = "idle"
    /\ fn = "compare_stocks"
    /\ symbols = <<>>
    /\ outcome = <<>>
    /\ idx = 0
    /\ results = <<>>
    /\ performance_data = <<>>
    /\ volatility_data = <<>>
    /\ returned = None
    /\ apc = "idle"
    /\ asset = "equity"
    /\ history = None
    /\ analysis = None
    /\ tech_signals = <<>>
    /\ fund_signals = <<>>
    /\ tech_weight_sum = 0
    /\ fund_weight_sum = 0
    /\ tech_normalized = 0
    /\ fund_normalized = 0
    /\ combined_score = 0
    /\ potential_upside = 0
    /\ potential_downside = 0
    /\ advice = None
    /\ mpc = "idle"
    /\ entry = "get_cmc_crypto_data"
    /\ api_key = TRUE
    /\ provider = <<>>
    /\ responses = <<>>
    /\ cmc_out = None
    /\ npc = "idle"
    /\ raw_symbol = <<>>
    /\ clean_symbol = <<>>
    /\ cmc_symbol = <<>>
    /\ tv_symbol = <<>>
    /\ ipc = "idle"
    /\ series = None
    /\ golden_cross = FALSE
    /\ death_cross = FALSE
    /\ macd_signal = ""
    /\ ind_analysis = None
    /\ ind_signals = <<>>
    /\ vpc = "idle"
    /\ tva_raw = <<>>
    /\ interval = "1d"
    /\ scanEnv = <<>>
    /\ tva_requests = <<>>
    /\ tva_tv_symbol = None
    /\ tva_result = None

NextCtc ==
    \/ CtcNoTickers
    \/ CtcDetect
    \/ CtcStocksBasic
    \/ CtcCryptoBasic
    \/ CtcCorrelation
    \/ CtcVolatility
    \/ CtcCompile
    \/ CtcSummary
    \/ CtcOuterRaise

SpecCtc == InitCtc /\ [][NextCtc]_vars

(***************************************************************************)
(* The technical signals step by step: the crosses of lines 222-227        *)
(* (analyze_crypto: 891-896), the MACD signal of lines 239-249 (908-918),  *)
(* the analysis returned, and the tech_signals the scorer derives from it. *)
(***************************************************************************)
\* lines 222-227
IndCrosses ==
    /\ ipc = "start"
    /\ golden_cross' = GoldenCross(series)
    /\ death_cross' = DeathCross(series)
    /\ ipc' = "macd"
    /\ UNCHANGED <<series, macd_signal, ind_analysis, ind_signals, recVars, chatVars, cmpVars, advVars, cmcapiVars, symVars, ctcVars, tvaVars>>

\* lines 239-249
IndMacd ==
    /\ ipc = "macd"
    /\ macd_signal' = MacdSignal(series.macd)
    /\ ipc' = "compile"
    /\ UNCHANGED <<series, golden_cross, death_cross, ind_analysis, ind_signals, recVars, chatVars, cmpVars, advVars, cmcapiVars, symVars, ctcVars, tvaVars>>

\* lines 262-303: the analysis dict, or the str of the outer handler when
\* price_vs_ma50 / price_vs_ma200 raise
IndCompile ==
    /\ ipc = "compile"
    /\ \E f \in FundamentalsChoices, a \in AnalystChoices :
          ind_analysis' = extract_financial_insights(
                              [kind |-> "ok", tail |-> series, fundamentals |-> f,
                               analyst |-> a, period_change_pct |-> 12])
    /\ ipc' = "analyzed"
    /\ UNCHANGED <<series, golden_cross, death_cross, macd_signal, ind_signals, recVars, chatVars, cmpVars, advVars, cmcapiVars, symVars, ctcVars, tvaVars>>

\* generate_investment_advice, lines 359-406
IndTechSignals ==
    /\ ipc = "analyzed"
    /\ ind_signals' = TechSignals(ind_analysis, FALSE)
    /\ ipc' = "done"
    /\ UNCHANGED <<series, golden_cross, death_cross, macd_signal, ind_analysis, recVars, chatVars, cmpVars, advVars, cmcapiVars, symVars, ctcVars, tvaVars>>

InitInd ==
    /\ ipc = "start"
    /\ series \in SeriesTails
    /\ golden_cross = FALSE
    /\ death_cross = FALSE
    /\ macd_signal = ""
    /\ ind_analysis = None
    /\ ind_signals = <<>>
    /\ rpc = "idle"
    /\ risk_tolerance = "moderate"
    /\ cmcEnv = [kind |-> "no_key"]
    /\ yfEnv = [kind |-> "error"]
    /\ cmc_recommendation = None
    /\ tv_analysis = None
    /\ yf_analysis = None
    /\ result = None
    /\ calls = <<>>
    /\ cpc = "idle"
    /\ is_windows = FALSE
    /\ body = [kind |-> "invalid_json"]
    /\ agentBehaviour = "returns"
    /\ alarm = "off"
    /\ agentQueries = <<>>
    /\ caught = "nothing"
    /\ response = None
    /\ kpc = "idle"
    /\ fn = "compare_stocks"
    /\ symbols = <<>>
    /\ outcome = <<>>
    /\ idx = 0
    /\ results = <<>>
    /\ performance_data = <<>>
    /\ volatility_data = <<>>
    /\ returned = None
    /\ apc = "idle"
    /\ asset = "equity"
    /\ history = None
    /\ analysis = None
    /\ tech_signals = <<>>
    /\ fund_signals = <<>>
    /\ tech_weight_sum = 0
    /\ fund_weight_sum = 0
    /\ tech_normalized = 0
    /\ fund_normalized = 0
    /\ combined_score = 0
    /\ potential_upside = 0
    /\ potential_downside = 0
    /\ advice = None
    /\ mpc = "idle"
    /\ entry = "get_cmc_crypto_data"
    /\ api_key = TRUE
    /\ provider = <<>>
    /\ responses = <<>>
    /\ cmc_out = None
    /\ npc = "idle"
    /\ raw_symbol = <<>>
    /\ clean_symbol = <<>>
    /\ cmc_symbol = <<>>
    /\ tv_symbol = <<>>
    /\ tpc = "idle"
    /\ tickers = <<>>
    /\ asset_type = "auto"
    /\ closeOut = <<>>
    /\ comparison_data = None
    /\ data_source = None
    /\ key_metrics = <<>>
    /\ price_data = <<>>
    /\ correlation_matrix = <<>>
    /\ volatility_metrics = <<>>
    /\ ctc_results = None
    /\ vpc = "idle"
    /\ tva_raw = <<>>
    /\ interval = "1d"
    /\ scanEnv = <<>>
    /\ tva_requests = <<>>
    /\ tva_tv_symbol = None
    /\ tva_result = None

NextInd ==
    \/ IndCrosses
    \/ IndMacd
    \/ IndCompile
    \/ IndTechSignals

SpecInd == InitInd /\ [][NextInd]_vars

(***************************************************************************)
(* get_tradingview_crypto_analysis (src/tradingview_api.py): the pairs it  *)
(* scans, in order, and the additional timeframes of the pair that worked. *)
(***************************************************************************)
\* symbol arguments: BTC and ETH, with a suffix and in lower case
TvaSymbols == {<<"B", "T", "C">>, <<"b", "T", "C">>, <<"B", "T", "C", "-", "U", "S", "D">>,
               <<"E", "T", "H">>, <<"E", "T", "H", "U", "S", "D">>}

Intervals == {"1d", "4h", "1h", "15m"}

\* what one scan gives: the indicators, no row for the symbol, a non-2xx status
ScanOutcomes == {"ok", "no_data", "http_error"}

\* f"BINANCE:{symbol}USDT", f"COINBASE:{symbol}USD", f"BINANCE:{symbol}BTC"
TvPair(exchange, sym, quote) == [exchange |-> exchange, base |-> sym, quote |-> quote]
PairNames == {"BINANCE_USDT", "COINBASE_USD", "BINANCE_BTC"}
PairOf(name, sym) ==
    IF name = "BINANCE_USDT" THEN TvPair("BINANCE", sym, "USDT")
    ELSE IF name = "COINBASE_USD" THEN TvPair("COINBASE", sym, "USD")
    ELSE TvPair("BINANCE", sym, "BTC")

\* TradingViewAPI.get_crypto_technical_analysis, lines 181-227
ScanResult(out, at) ==
    IF out = "ok" THEN [overall_sentiment |-> "Buy", interval |-> at]
    ELSE IF out = "no_data" THEN [error |-> "No data returned for the specified symbol"]
    ELSE [error |-> "Error fetching technical analysis"]

\* line 449
TvaSymbol == CleanSymbol(tva_raw)

\* the scan of one pair at the requested interval
TvaScan(name) ==
    /\ tva_tv_symbol' = PairOf(name, TvaSymbol)
    /\ tva_result' = ScanResult(scanEnv[name], interval)
    /\ tva_requests' = Append(tva_requests,
                              [tv_symbol |-> PairOf(name, TvaSymbol), interval |-> interval])

\* lines 451-453
TvaScanBinanceUsdt ==
    /\ vpc = "start"
    /\ TvaScan("BINANCE_USDT")
    /\ vpc' = "usdt"
    /\ UNCHANGED <<tva_raw, interval, scanEnv, recVars, chatVars, cmpVars, advVars, cmcapiVars, symVars, ctcVars, indVars>>

\* lines 456-459
TvaScanCoinbase ==
    /\ vpc = "usdt"
    /\ "error" \in DOMAIN tva_result
    /\ TvaScan("COINBASE_USD")
    /\ vpc' = "coinbase"
    /\ UNCHANGED <<tva_raw, interval, scanEnv, recVars, chatVars, cmpVars, advVars, cmcapiVars, symVars, ctcVars, indVars>>

\* mutant: the BTC pairing is tried for every symbol
TvaScanBtcPairAlways ==
    /\ vpc = "coinbase"
    /\ "error" \in DOMAIN tva_result
    /\ TvaScan("BINANCE_BTC")
    /\ vpc' = "btc"
    /\ UNCHANGED <<tva_raw, interval, scanEnv, recVars, chatVars, cmpVars, advVars, cmcapiVars, symVars, ctcVars, indVars>>

\* lines 461-464
TvaScanBtcPair ==
    /\ vpc = "coinbase"
    /\ "error" \in DOMAIN tva_result
    /\ TvaSymbol # <<"B", "T", "C">>
    /\ TvaScan("BINANCE_BTC")
    /\ vpc' = "btc"
    /\ UNCHANGED <<tva_raw, interval, scanEnv, recVars, chatVars, cmpVars, advVars, cmcapiVars, symVars, ctcVars, indVars>>

\* the intervals of lines 473-478 in their order
AdditionalIntervals(at) == SelectSeq(<<"1d", "4h", "1h">>, LAMBDA i : i # at)

\* lines 467-480: symbol, tv_symbol and the additional timeframes, then the return
TvaAdditional ==
    /\ vpc \in {"usdt", "coinbase", "btc"}
    /\ "error" \notin DOMAIN tva_result
    /\ LET more == AdditionalIntervals(interval)
       IN  /\ \E outs \in [{more[i] : i \in 1..Len(more)} -> ScanOutcomes] :
                 tva_result' =
                    [overall_sentiment |-> tva_result.overall_sentiment,
                     interval |-> tva_result.interval,
                     symbol |-> TvaSymbol,
                     tv_symbol |-> tva_tv_symbol,
                     additional_timeframes |->
                         [i \in DOMAIN outs |-> ScanResult(outs[i], i)]]
           /\ tva_requests' = tva_requests \o
                 [i \in 1..Len(more) |-> [tv_symbol |-> tva_tv_symbol, interval |-> more[i]]]
    /\ vpc' = "done"
    /\ UNCHANGED <<tva_raw, interval, scanEnv, tva_tv_symbol, recVars, chatVars, cmpVars, advVars, cmcapiVars, symVars, ctcVars, indVars>>

\* line 482 with an error result: no pair is left to try
TvaReturnError ==
    /\ \/ vpc = "btc"
       \/ vpc = "coinbase" /\ TvaSymbol = <<"B", "T", "C">>
    /\ "error" \in DOMAIN tva_result
    /\ vpc' = "done"
    /\ UNCHANGED <<tva_raw, interval, scanEnv, tva_requests, tva_tv_symbol, tva_result,
                   recVars, chatVars, cmpVars, advVars, cmcapiVars, symVars, ctcVars, indVars>>

InitTva ==
    /\ vpc = "start"
    /\ tva_raw \in TvaSymbols
    /\ interval \in Intervals
    /\ scanEnv \in [PairNames -> ScanOutcomes]
    /\ tva_requests = <<>>
    /\ tva_tv_symbol = None
    /\ tva_result = None
    /\ rpc = "idle"
    /\ risk_tolerance = "moderate"
    /\ cmcEnv = [kind |-> "no_key"]
    /\ yfEnv = [kind |-> "error"]
    /\ cmc_recommendation = None
    /\ tv_analysis = None
    /\ yf_analysis = None
    /\ result = None
    /\ calls = <<>>
    /\ cpc = "idle"
    /\ is_windows = FALSE
    /\ body = [kind |-> "invalid_json"]
    /\ agentBehaviour = "returns"
    /\ alarm = "off"
    /\ agentQueries = <<>>
    /\ caught = "nothing"
    /\ response = None
    /\ kpc = "idle"
    /\ fn = "compare_stocks"
    /\ symbols = <<>>
    /\ outcome = <<>>
    /\ idx = 0
    /\ results = <<>>
    /\ performance_data = <<>>
    /\ volatility_data = <<>>
    /\ returned = None
    /\ apc = "idle"
    /\ asset = "equity"
    /\ history = None
    /\ analysis = None
    /\ tech_signals = <<>>
    /\ fund_signals = <<>>
    /\ tech_weight_sum = 0
    /\ fund_weight_sum = 0
    /\ tech_normalized = 0
    /\ fund_normalized = 0
    /\ combined_score = 0
    /\ potential_upside = 0
    /\ potential_downside = 0
    /\ advice = None
    /\ mpc = "idle"
    /\ entry = "get_cmc_crypto_data"
    /\ api_key = TRUE
    /\ provider = <<>>
    /\ responses = <<>>
    /\ cmc_out = None
    /\ npc = "idle"
    /\ raw_symbol = <<>>
    /\ clean_symbol = <<>>
    /\ cmc_symbol = <<>>
    /\ tv_symbol = <<>>
    /\ tpc = "idle"
    /\ tickers = <<>>
    /\ asset_type = "auto"
    /\ closeOut = <<>>
    /\ comparison_data = None
    /\ data_source = None
    /\ key_metrics = <<>>
    /\ price_data = <<>>
    /\ correlation_matrix = <<>>
    /\ volatility_metrics = <<>>
    /\ ctc_results = None
    /\ ipc = "idle"
    /\ series = None
    /\ golden_cross = FALSE
    /\ death_cross = FALSE
    /\ macd_signal = ""
    /\ ind_analysis = None
    /\ ind_signals = <<>>

NextTva ==
    \/ TvaScanBinanceUsdt
    \/ TvaScanCoinbase
    \/ TvaScanBtcPair
    \/ TvaAdditional
    \/ TvaReturnError

SpecTva == InitTva /\ [][NextTva]_vars

(***************************************************************************)
(* Claims about get_buy_sell_recommendation.                               *)
(***************************************************************************)
GbsrReturnedNormally == rpc \in {"ret_cmc", "ret_tv", "ret_yf", "ret_none"}

\* the CoinMarketCap recommendation failed
CmcFailed == cmcEnv.kind # "ok"
\* the Yahoo-based crypto advice fails
YfFailed == yfEnv.kind = "error"
\* TradingView was asked and every timeframe scan failed
TvAllScansFailed ==
    /\ \E i \in 1..Len(calls) : calls[i] = "tv"
    /\ \/ ~IsDict(tv_analysis)
       \/ \A tf \in Timeframes : "error" \in DOMAIN tv_analysis.timeframes[tf]

\* a value a source returned is a non-error result
NonError(v) == "str" \notin DOMAIN v /\ "error" \notin DOMAIN v /\ "none" \notin DOMAIN v

\* C1: when get_buy_sell_recommendation returns and all three sources failed
\* (the CoinMarketCap recommendation, every TradingView timeframe scan and the
\* Yahoo-based advice), the result holds only the "error" key, with the
\* "... from any source" message, and carries no recommendation or confidence.
C1_AllSourcesFailGivesErrorOnly ==
    (GbsrReturnedNormally /\ CmcFailed /\ TvAllScansFailed /\ YfFailed)
        => /\ DOMAIN result = {"error"}
           /\ result.error = "Unable to generate buy/sell recommendation from any source"

\* C2: the sources are called in the order CoinMarketCap, TradingView, Yahoo
\* Finance, and the returned base is the first of them, in that order, whose
\* returned value is a non-error result: TradingView is the base only if
\* CoinMarketCap failed, Yahoo only if both others returned an error, and no
\* source is the base only if all three did.
C2_BaseIsFirstNonErrorSource ==
    /\ calls \in {<<>>, <<"cmc">>, <<"cmc", "tv">>, <<"cmc", "tv", "yf">>}
    /\ rpc = "ret_cmc" =>
          /\ cmcEnv.kind = "ok"
          /\ "market_metrics" \in DOMAIN result
          /\ result.technical_score = cmcEnv.technical_score
    /\ rpc = "ret_tv" =>
          /\ CmcFailed
          /\ NonError(tv_analysis)
          /\ result.recommendation = tv_analysis.overall_sentiment
          /\ result.confidence_score = TvBaseConfidence
          /\ calls = <<"cmc", "tv">>
    /\ rpc = "ret_yf" =>
          /\ CmcFailed
          /\ ~NonError(tv_analysis)
          /\ yfEnv.kind = "ok"
          /\ result = yf_analysis
          /\ result.combined_score = yfEnv.combined_score
          /\ calls = <<"cmc", "tv", "yf">>
    /\ rpc = "ret_none" =>
          /\ CmcFailed
          /\ ~NonError(tv_analysis)
          /\ YfFailed
          /\ calls = <<"cmc", "tv", "yf">>

\* Yahoo Finance became the base after CoinMarketCap and TradingView failed
C2_Witness ==
    /\ rpc = "ret_yf"
    /\ calls = <<"cmc", "tv", "yf">>
    /\ "recommendation" \in DOMAIN result

\* the keys the merge may add to the base
SupplementaryKeys == {"tradingview_analysis", "yahoo_finance_analysis", "consensus"}

\* d is base with at most the supplementary keys added
ExtendsBase(d, base) ==
    /\ DOMAIN base \subseteq DOMAIN d
    /\ DOMAIN d \subseteq DOMAIN base \cup SupplementaryKeys
    /\ \A k \in DOMAIN base : d[k] = base[k]

\* C3: when the CoinMarketCap recommendation is the base, at every point of the
\* merge and in the returned result every field CoinMarketCap returned keeps its
\* value and only tradingview_analysis, yahoo_finance_analysis and consensus
\* are added, also when the supplementary step raises part-way.
C3_MergeKeepsBaseFields ==
    LET base == get_cmc_investment_recommendation(cmcEnv, risk_tolerance)
    IN  /\ rpc \in {"enh_tv", "enh_yf", "enh_merge_tv", "enh_merge_yf", "enh_consensus",
                     "ret_cmc"}
            => ExtendsBase(cmc_recommendation, base)
        /\ rpc = "ret_cmc" => ExtendsBase(result, base)

\* the supplementary step raised after the TradingView annotation was added
\* and before the consensus was
C3_Witness ==
    /\ rpc = "ret_cmc"
    /\ "tradingview_analysis" \in DOMAIN result
    /\ "consensus" \notin DOMAIN result

\* the labels of the available sources, as the consensus reads them
AvailableLabels ==
    <<cmc_recommendation.recommendation>>
    \o (IF NonError(tv_analysis) THEN <<tv_analysis.overall_sentiment>> ELSE <<>>)
    \o (IF NonError(yf_analysis) THEN <<yf_analysis.recommendation>> ELSE <<>>)

NumBuy(labels) == Cardinality({i \in 1..Len(labels) : ContainsBuy(labels[i])})
NumSell(labels) == Cardinality({i \in 1..Len(labels) : ContainsSell(labels[i])})

\* C4: for every 2 or 3 available source labels the consensus label is a
\* consensus to Buy exactly when at least 2 labels contain "Buy" and outnumber
\* those containing "Sell" (symmetrically for Sell), Strong exactly when all
\* available sources agree and Moderate otherwise, and "Mixed signals across
\* sources" in every other case; 3 unanimous Buy labels give "Strong consensus
\* to Buy" with agreement_level "High", 2 of 3 give "Moderate consensus to Buy".
C4_ConsensusLabel ==
    "consensus" \in DOMAIN cmc_recommendation =>
        LET labels == AvailableLabels
            n == Len(labels)
            b == NumBuy(labels)
            s == NumSell(labels)
            c == cmc_recommendation.consensus
            toBuy == b >= 2 /\ b > s
            toSell == s >= 2 /\ s > b
        IN  /\ n \in {2, 3}
            /\ c.sources = n
            /\ c.recommendation = "Strong consensus to Buy" <=> (toBuy /\ b = n)
            /\ c.recommendation = "Moderate consensus to Buy" <=> (toBuy /\ b # n)
            /\ c.recommendation = "Strong consensus to Sell" <=> (toSell /\ s = n)
            /\ c.recommendation = "Moderate consensus to Sell" <=> (toSell /\ s # n)
            /\ c.recommendation = "Mixed signals across sources" <=> (~toBuy /\ ~toSell)
            /\ (n = 3 /\ b = 3) => c.agreement_level = "High"

\* two of three sources say Buy and the consensus was computed
C4_Witness ==
    /\ rpc = "ret_cmc"
    /\ "consensus" \in DOMAIN result
    /\ Len(AvailableLabels) = 3
    /\ NumBuy(AvailableLabels) = 2
    /\ result.consensus.recommendation = "Moderate consensus to Buy"

\* C5: agreement_level is "High" iff all available sources are unanimous,
\* "Moderate" iff it is not High and a majority of the available sources lean
\* the same way, and "Low" otherwise (a single Buy among Hold/Neutral labels
\* is not Moderate).
C5_AgreementLevel ==
    "consensus" \in DOMAIN cmc_recommendation =>
        LET labels == AvailableLabels
            n == Len(labels)
            b == NumBuy(labels)
            s == NumSell(labels)
            unanimous == b = n \/ s = n
            majority == 2 * b > n \/ 2 * s > n
        IN  cmc_recommendation.consensus.agreement_level =
                (IF unanimous THEN "High" ELSE IF majority THEN "Moderate" ELSE "Low")

(***************************************************************************)
(* Claims about /api/chat.                                                 *)
(***************************************************************************)
AgentInvoked == Len(agentQueries) > 0

HasUserRole(ms) == \E i \in 1..Len(ms) : ms[i].role = "user"

\* the content of the last user-role message of a list that has one
LastUserContent(ms) ==
    LET last == CHOOSE i \in 1..Len(ms) :
                    /\ ms[i].role = "user"
                    /\ \A j \in (i + 1)..Len(ms) : ms[j].role # "user"
    IN  ms[last].content

\* C6: when the agent call of a request runs longer than the request timeout,
\* the endpoint answers 504 with "The financial agent took too long to
\* respond" and never a 200 message, on the signal-alarm path and on the
\* thread-join path.
C6_TimeoutGives504 ==
    (cpc = "done" /\ AgentInvoked /\ agentBehaviour = "hangs")
        => /\ response.status = 504
           /\ response.error = "The financial agent took too long to respond"

\* C7: when financial_agent.chat raises while a valid request is handled, the
\* endpoint answers 500 with a "message" that contains "I encountered an error
\* processing your request".
C7_AgentErrorGives500 ==
    (cpc = "done" /\ AgentInvoked /\ agentBehaviour = "raises" /\ alarm # "fired")
        => /\ response.status = 500
           /\ response.message = "I encountered an error processing your request"

\* the request is one of the three rejected kinds
RejectedBody ==
    \/ body.kind = "invalid_json"
    \/ body.kind = "no_messages"
    \/ (body.kind = "messages" /\ ~HasUserRole(body.messages))

AnsweredFromLastUserMessage ==
    /\ response.status = 200
    /\ "message" \in DOMAIN response
    /\ response.message \in STRING
    /\ \A i \in 1..Len(agentQueries) : agentQueries[i] = LastUserContent(body.messages)

HasData(r, symbol) ==
    IF fn = "compare_stocks"
    THEN symbol \in DOMAIN r /\ "percent_change" \in DOMAIN r[symbol]
    ELSE \E i \in 1..Len(r.performance_data) : r.performance_data[i].key = symbol

\* the returned value holds an error note keyed by the symbol
HasErrorNote(r, symbol) == symbol \in DOMAIN r /\ "str" \in DOMAIN r[symbol]

\* C10: in compare_stocks and compare_cryptos the returned result holds the
\* data of every symbol that succeeded and, for every symbol that failed, an
\* error note keyed by that symbol.
C10_FailedSymbolKeepsErrorNote ==
    kpc = "done" =>
        \A i \in 1..Len(symbols) :
            IF outcome[symbols[i]].kind = "ok"
            THEN HasData(returned, symbols[i])
            ELSE HasErrorNote(returned, symbols[i])

(***************************************************************************)
(* Claims about the scorers.                                               *)
(***************************************************************************)
\* the scorer returned a recommendation object
IsRecommendation(v) == IsDict(v) /\ "recommendation" \in DOMAIN v

\* the scorer returned an error value: a str that reports an error
IsErrorValue(v) ==
    /\ "str" \in DOMAIN v
    /\ v.str \in ErrorTexts \cup {"Error generating investment advice"}

\* the price history was fetched and is empty
EmptyHistory == history.kind = "ok" /\ history.points = 0

\* C11: whatever the data fetches do (data, an empty price history, a raise),
\* generate_investment_advice and generate_crypto_investment_advice go on to
\* a return, the value returned is a recommendation object or an error value,
\* and with an empty price history it is an error value.
C11_AdviceOrErrorNeverRaises ==
    /\ apc # "done" => ENABLED NextAdv
    /\ apc = "done" => IsRecommendation(advice) \/ IsErrorValue(advice)
    /\ apc = "done" /\ EmptyHistory => IsErrorValue(advice)

\* generate_investment_advice met an empty price history and returned an error
C11_Witness ==
    /\ apc = "done"
    /\ asset = "equity"
    /\ EmptyHistory
    /\ analysis = [str |-> "No price data available"]
    /\ IsErrorValue(advice)

\* the boundaries of the label mapping, in thousandths
LabelBoundaries == {-6000, -3000, 0, 3000, 6000}

\* the labels from the most bearish to the most bullish
LabelsAscending == <<"Strong Sell", "Sell", "Hold", "Mild Buy", "Buy", "Strong Buy">>

\* C13: in both scorers the label is the step function of combined_score
\* that climbs one label at each boundary -6, -3, 0, 3, 6 the score exceeds,
\* so a boundary value itself keeps the lower label and a higher score never
\* has a more bearish label.
C13_LabelIsStepFunction ==
    apc = "done" /\ IsRecommendation(advice) =>
        advice.recommendation =
            LabelsAscending[1 + Cardinality({b \in LabelBoundaries : combined_score > b})]

\* the crypto scorer labelled a combined_score of exactly 6
C13_Witness ==
    /\ apc = "done"
    /\ asset = "crypto"
    /\ IsRecommendation(advice)
    /\ combined_score = 6000
    /\ advice.recommendation = "Buy"

\* the scores have been computed
Scored == apc \in {"label", "market", "volatility", "compile", "done"} /\ ~IsErrorStr(analysis)

\* C14: the normalized technical and fundamental scores lie within [-10, 10]
\* and are 0 when the weights of the signal set sum to 0 (an empty set, or
\* one of zero-weight error signals only).
C14_NormalizedScoresBounded ==
    Scored =>
        /\ tech_normalized >= -10000 /\ tech_normalized <= 10000
        /\ fund_normalized >= -10000 /\ fund_normalized <= 10000
        /\ tech_weight_sum = 0 => tech_normalized = 0
        /\ fund_weight_sum = 0 => fund_normalized = 0

\* the equity scorer normalized a set of zero-weight error signals
C14_Witness ==
    /\ apc = "label"
    /\ asset = "equity"
    /\ Len(tech_signals) > 0
    /\ tech_weight_sum = 0
    /\ tech_normalized = 0
    /\ Len(fund_signals) > 0
    /\ fund_weight_sum = 0

\* C15: the confidence_score of every returned recommendation is within 0..100.
C15_ConfidenceWithin100 ==
    apc = "done" /\ IsRecommendation(advice) =>
        advice.confidence_score >= 0 /\ advice.confidence_score <= 100

\* C16: the reported potential_downside is within [2, 50] percent for
\* equities and [5, 90] percent for crypto.
C16_DownsideWithinBounds ==
    apc = "done" /\ IsRecommendation(advice) =>
        IF asset = "equity"
        THEN advice.potential_downside >= 2000 /\ advice.potential_downside <= 50000
        ELSE advice.potential_downside >= 5000 /\ advice.potential_downside <= 90000

\* C17: the reported potential_upside is at least 2 percent for equities and
\* at least 5 percent for crypto.
C17_UpsideFloor ==
    apc = "done" /\ IsRecommendation(advice) =>
        IF asset = "equity"
        THEN advice.potential_upside >= 2000
        ELSE advice.potential_upside >= 5000

\* C18: with a non-empty price history, extract_financial_insights and
\* analyze_crypto return an analysis object whose price_vs_ma50 is "Unknown"
\* with fewer than 50 rows and whose price_vs_ma200 is "Unknown" with fewer
\* than 200 rows, the field being "Above" or "Below" otherwise.
C18_ShortSeriesGivesUnknown ==
    apc # "start" /\ history.kind = "ok" /\ history.points > 0 =>
        /\ IsDict(analysis)
        /\ LET ma == analysis.technical_indicators.moving_averages
           IN  /\ IF history.points < MA50Window
                  THEN ma.price_vs_ma50 = "Unknown"
                  ELSE ma.price_vs_ma50 \in {"Above", "Below"}
               /\ IF history.points < MA200Window
                  THEN ma.price_vs_ma200 = "Unknown"
                  ELSE ma.price_vs_ma200 \in {"Above", "Below"}

(***************************************************************************)
(* Claims about the CoinMarketCap adapter.                                 *)
(***************************************************************************)
\* the provider failed the entry point: no API key, or the quotes request
\* (the one every entry point makes) was answered with a non-2xx status or
\* with a payload that does not hold the symbol
ProviderFailure == ~api_key \/ provider["quotes"] # "ok"

\* v is an {"error": message} dict
IsErrorDict(v) == IsDict(v) /\ "error" \in DOMAIN v

\* a returned value reports an error: it is an {"error": message} dict, or a
\* dict that holds one as its quotes, or under a symbol of its comparison_data
ReportsError(v) ==
    \/ IsErrorDict(v)
    \/ "quotes" \in DOMAIN v /\ IsErrorDict(v.quotes)
    \/ /\ "comparison_data" \in DOMAIN v
       /\ \E s \in DOMAIN v.comparison_data : IsErrorDict(v.comparison_data[s])

\* C12: an adapter entry point that ends has returned, never raised, and when
\* the provider failed (missing API key, non-2xx response, payload without the
\* symbol) the returned value reports the error as an {"error": message} dict.
C12_ProviderFailureIsReturnedError ==
    mpc = "done" =>
        /\ "returned" \in DOMAIN cmc_out
        /\ ProviderFailure => ReportsError(cmc_out.returned)

(***************************************************************************)
(* Claims about the symbol clean-up.                                       *)
(***************************************************************************)
\* s ends with suffix
EndsWith(s, suffix) ==
    /\ Len(s) >= Len(suffix)
    /\ SubSeq(s, Len(s) - Len(suffix) + 1, Len(s)) = suffix

\* s without a trailing "-USD", or else without a trailing "USD"
WithoutTrailingSuffix(s) ==
    IF EndsWith(s, DashUsd) THEN SubSeq(s, 1, Len(s) - 4)
    ELSE IF EndsWith(s, Usd) THEN SubSeq(s, 1, Len(s) - 3)
    ELSE s

\* C19: the cleaned symbol is the upper-cased symbol without its trailing
\* "-USD" or "USD" and nothing else is removed (a symbol ending in "USDT" still
\* ends in "USDT"), and cleaning a cleaned symbol again changes nothing.
C19_OnlyTrailingSuffixRemoved ==
    /\ npc \in {"cleaned", "cmc", "done"} =>
          /\ clean_symbol = WithoutTrailingSuffix(Upper(raw_symbol))
          /\ EndsWith(Upper(raw_symbol), <<"U", "S", "D", "T">>) =>
                EndsWith(clean_symbol, <<"U", "S", "D", "T">>)
    /\ npc \in {"cmc", "done"} => cmc_symbol = clean_symbol

(***************************************************************************)
(* Claims about comprehensive_ticker_comparison.                           *)
(***************************************************************************)
\* the tickers of the call whose price series is empty
EmptyTickers ==
    {tickers[i] : i \in {j \in 1..Len(tickers) :
                            closeOut[tickers[j]].kind \in {"empty", "empty_no_columns"}}}

\* the tickers of the call whose price series holds closes
PricedTickers ==
    {tickers[i] : i \in {j \in 1..Len(tickers) : closeOut[tickers[j]].kind = "ok"}}

\* the comparison ran to its normal return with an empty series among its
\* tickers, every other ticker having closes
ComparedWithEmptySeries ==
    /\ tpc = "done"
    /\ EmptyTickers # {}
    /\ EmptyTickers \cup PricedTickers = {tickers[i] : i \in 1..Len(tickers)}
    /\ IsDict(comparison_data)

\* C20: when a ticker of the comparison has an empty price series, the call
\* returns its results, the correlation matrix has neither a row nor a column
\* for that ticker, and it holds a correlation for every pair of the others.
C20_EmptySeriesExcludedFromMatrix ==
    ComparedWithEmptySeries =>
        /\ "correlation_matrix" \in DOMAIN ctc_results
        /\ LET cm == ctc_results.correlation_matrix
               key(t) == PriceKey(t, asset_type)
           IN  /\ \A t \in EmptyTickers :
                     /\ key(t) \notin DOMAIN cm
                     /\ \A c \in DOMAIN cm : key(t) \notin DOMAIN cm[c]
               /\ \A a, b \in PricedTickers :
                     /\ key(a) \in DOMAIN cm
                     /\ key(b) \in DOMAIN cm[key(a)]
                     /\ ~IsNa(cm[key(a)][key(b)])

\* the (asset, percent change) pairs the comparison data holds: the tickers
\* compare_stocks priced, the symbols CoinMarketCap quoted, the symbols
\* compare_cryptos analysed
ComputedChanges ==
    IF asset_type = "stocks"
    THEN {<<t, comparison_data[t].percent_change>> :
             t \in {u \in DOMAIN comparison_data : "percent_change" \in DOMAIN comparison_data[u]}}
    ELSE IF data_source = "CoinMarketCap"
    THEN {<<n, comparison_data.comparison_data[n].percent_change_7d>> :
             n \in {m \in DOMAIN comparison_data.comparison_data :
                        "percent_change_7d" \in DOMAIN comparison_data.comparison_data[m]}}
    ELSE IF data_source = "Yahoo Finance"
    THEN {<<k, comparison_data.performance_data[k].period_change_pct>> :
             k \in DOMAIN comparison_data.performance_data}
    ELSE {}

\* the comparison returned its results
ComparisonReturned == tpc = "done" /\ "summary_insights" \in DOMAIN ctc_results

\* summary_insights holds a line of that kind naming an asset of ComputedChanges
\* whose change no other asset's change is beyond
HasPerformerLine(kind, best) ==
    \E i \in 1..Len(ctc_results.summary_insights) :
        LET l == ctc_results.summary_insights[i]
        IN  /\ l.line = kind
            /\ <<l.a, l.pct>> \in ComputedChanges
            /\ \A c \in ComputedChanges : IF best THEN c[2] <= l.pct ELSE c[2] >= l.pct

\* C21: a returned comparison whose data holds at least one computed percent
\* change has, in summary_insights, a best-performer line naming an asset with
\* the maximum change and a worst-performer line naming one with the minimum,
\* for stocks and for crypto from any data source.
C21_BestAndWorstPerformerLines ==
    ComparisonReturned /\ ComputedChanges # {} =>
        /\ HasPerformerLine("Best performer", TRUE)
        /\ HasPerformerLine("Worst performer", FALSE)

(***************************************************************************)
(* Claims about the technical signals.                                     *)
(***************************************************************************)
\* MA50 and MA200 are defined at the last two points
MasDefined ==
    /\ ~IsNa(series.ma50[1]) /\ ~IsNa(series.ma50[2])
    /\ ~IsNa(series.ma200[1]) /\ ~IsNa(series.ma200[2])

\* the crosses have been computed
CrossesComputed == ipc \in {"macd", "compile", "analyzed", "done"}

\* C22: golden_cross is true exactly when MA50 and MA200 are defined at the
\* last two points and MA50 goes from <= MA200 to > MA200 between them, and
\* death_cross exactly for the reverse; MA50 above MA200 at both points is no
\* golden cross; the two are never both true; and the analysis reports them.
C22_CrossesAreEdgeTriggered ==
    /\ CrossesComputed =>
          /\ golden_cross <=> /\ MasDefined
                              /\ series.ma50[1].v <= series.ma200[1].v
                              /\ series.ma50[2].v > series.ma200[2].v
          /\ death_cross <=> /\ MasDefined
                             /\ series.ma50[1].v >= series.ma200[1].v
                             /\ series.ma50[2].v < series.ma200[2].v
          /\ (/\ MasDefined
              /\ series.ma50[1].v > series.ma200[1].v
              /\ series.ma50[2].v > series.ma200[2].v) => ~golden_cross
          /\ ~(golden_cross /\ death_cross)
    /\ ipc \in {"analyzed", "done"} /\ IsDict(ind_analysis) =>
          /\ ind_analysis.technical_indicators.moving_averages.golden_cross = golden_cross
          /\ ind_analysis.technical_indicators.moving_averages.death_cross = death_cross

\* a golden cross was found and reported by the analysis
C22_Witness ==
    /\ ipc = "done"
    /\ golden_cross
    /\ IsDict(ind_analysis)
    /\ ind_analysis.technical_indicators.moving_averages.golden_cross

\* the MACD line crosses the signal line between the last two points
MacdCrossesUp == series.macd[1] <= SignalLine /\ series.macd[2] > SignalLine
MacdCrossesDown == series.macd[1] >= SignalLine /\ series.macd[2] < SignalLine

\* the MACD entries of the scorer's tech_signals
MacdEntries ==
    {ind_signals[i] : i \in {j \in 1..Len(ind_signals) : ind_signals[j].indicator = "MACD"}}

\* C23: macd_signal is decided from the last two points of the MACD line and
\* the signal line; a crossover between them gives "Bullish Crossover" or
\* "Bearish Crossover" whatever side the line ends on, otherwise the side
\* gives "Bullish" or "Bearish"; the scorer weighs a crossover 3 and a static
\* signal 2.
C23_MacdCrossoverPrecedence ==
    /\ ipc \in {"compile", "analyzed", "done"} =>
          /\ MacdCrossesUp => macd_signal = "Bullish Crossover"
          /\ MacdCrossesDown => macd_signal = "Bearish Crossover"
          /\ ~MacdCrossesUp /\ ~MacdCrossesDown =>
                macd_signal = IF series.macd[2] > SignalLine THEN "Bullish" ELSE "Bearish"
    /\ ipc = "done" /\ IsDict(ind_analysis) =>
          /\ ind_analysis.technical_indicators.macd.signal = macd_signal
          /\ MacdEntries =
                {[indicator |-> "MACD",
                  signal |-> IF macd_signal \in {"Bullish Crossover", "Bullish"}
                             THEN "Bullish" ELSE "Bearish",
                  weight |-> IF MacdCrossesUp \/ MacdCrossesDown THEN 3 ELSE 2]}

\* the MACD line crossed up while ending above the signal line, and the scorer
\* weighed the crossover 3
C23_Witness ==
    /\ ipc = "done"
    /\ IsDict(ind_analysis)
    /\ MacdCrossesUp
    /\ \E e \in MacdEntries : e.weight = 3

(***************************************************************************)
(* Claims about the crypto scorer's combined score.                        *)
(***************************************************************************)
\* the crypto scorer has made its adjustments to combined_score
CryptoScoreAdjusted ==
    /\ asset = "crypto"
    /\ apc \in {"label", "compile", "done"}
    /\ IsDict(analysis)

\* the volatility adjustment, in thousandths of a point
VolatilityAdj ==
    IF risk_tolerance = "low" /\ analysis.price_data.volatility_annual > 70 THEN -2000
    ELSE IF risk_tolerance = "high" /\ analysis.price_data.volatility_annual > 70 THEN 1000
    ELSE 0

\* C24: the crypto combined_score is technical_normalized times the risk
\* weight, plus the volatility adjustment, plus a Bitcoin-trend adjustment of
\* -2, -1, 0, +1 or +2, and nothing else.
C24_CryptoScoreHasNoOtherTerm ==
    CryptoScoreAdjusted =>
        combined_score
            - Quot(tech_normalized * CryptoTechWeight(risk_tolerance), 10)
            - VolatilityAdj
        \in {-2000, -1000, 0, 1000, 2000}

(***************************************************************************)
(* Claims about get_tradingview_crypto_analysis.                           *)
(***************************************************************************)
\* the order in which the pairs are to be tried
PairOrder == <<"BINANCE_USDT", "COINBASE_USD", "BINANCE_BTC">>

\* the scans requested at the requested interval
MainRequests == SelectSeq(tva_requests, LAMBDA r : r.interval = interval)

\* the scans requested at another interval
AdditionalRequests == SelectSeq(tva_requests, LAMBDA r : r.interval # interval)

\* C25: the pairs are scanned in the order BINANCE:<SYM>USDT, COINBASE:<SYM>USD,
\* BINANCE:<SYM>BTC, each only after the one before it gave an error, and the
\* BTC pairing never for symbol BTC; a successful call reports the pair whose
\* scan succeeded as tv_symbol and scans 1d, 4h, 1h minus the requested
\* interval for that same pair; a failed call returns the last error and
\* scans no additional timeframe.
C25_PairsTriedInOrder ==
    /\ Len(MainRequests) <= 3
    /\ \A i \in 1..Len(MainRequests) :
          /\ MainRequests[i].tv_symbol = PairOf(PairOrder[i], TvaSymbol)
          /\ tva_requests[i] = MainRequests[i]
          /\ i > 1 => scanEnv[PairOrder[i - 1]] # "ok"
    /\ TvaSymbol = <<"B", "T", "C">> => Len(MainRequests) <= 2
    /\ vpc = "done" /\ "error" \notin DOMAIN tva_result =>
          LET n == Len(MainRequests)
          IN  /\ scanEnv[PairOrder[n]] = "ok"
              /\ tva_result.tv_symbol = PairOf(PairOrder[n], TvaSymbol)
              /\ AdditionalRequests =
                    [i \in 1..Len(AdditionalIntervals(interval)) |->
                        [tv_symbol |-> tva_result.tv_symbol,
                         interval |-> AdditionalIntervals(interval)[i]]]
    /\ vpc = "done" /\ "error" \in DOMAIN tva_result =>
          /\ AdditionalRequests = <<>>
          /\ Len(MainRequests) = IF TvaSymbol = <<"B", "T", "C">> THEN 2 ELSE 3
          /\ tva_result = ScanResult(scanEnv[PairOrder[Len(MainRequests)]], interval)

\* ETH was found on the third pair after two errors, and its additional
\* timeframes were scanned
C25_Witness ==
    /\ vpc = "done"
    /\ "error" \notin DOMAIN tva_result
    /\ Len(MainRequests) = 3
    /\ Len(AdditionalRequests) = 3

(***************************************************************************)
(* Claims about the risk_tolerance argument of get_buy_sell_recommendation.*)
(***************************************************************************)
\* both scorers were called with the risk_tolerance argument
BothScorersCalled ==
    /\ \E i \in 1..Len(calls) : calls[i] = "cmc"
    /\ \E i \in 1..Len(calls) : calls[i] = "yf"

\* C26: whatever risk_tolerance string get_buy_sell_recommendation is given,
\* the CoinMarketCap scorer and the Yahoo Finance crypto scorer it passes the
\* string to take it as the same risk class.
C26_ScorersAgreeOnRiskClass ==
    BothScorersCalled => CmcRiskClass(risk_tolerance) = YahooRiskClass(risk_tolerance)

(***************************************************************************)
(* Claims about the technical_score of a crypto advice.                    *)
(***************************************************************************)
\* generate_crypto_investment_advice has returned an advice dict
CryptoAdviceReturned == apc = "done" /\ asset = "crypto" /\ "technical_score" \in DOMAIN advice

\* C27: in every advice dict of generate_crypto_investment_advice,
\* technical_score is 10 times the signed weights over the sum of the weights
\* of the technical_signals list returned in the same dict.
C27_TechnicalScoreMatchesReturnedSignals ==
    CryptoAdviceReturned =>
        advice.technical_score =
            RoundTo(Normalized(SignalScore(advice.technical_signals,
                                           Len(advice.technical_signals)),
                               WeightSum(advice.technical_signals,
                                         Len(advice.technical_signals))), 10)

(***************************************************************************)
(* Claims about the market-cap gate of get_cmc_investment_recommendation.  *)
(***************************************************************************)
\* the CoinMarketCap scorer returned a recommendation for risk_tolerance "low"
LowRiskCmcRecommendation ==
    /\ risk_tolerance = "low"
    /\ "market_metrics" \in DOMAIN cmc_recommendation

\* C28: with risk_tolerance "low", get_cmc_investment_recommendation gives
\* "Strong Buy" or "Buy" only to a market cap above $50 billion and "Mild Buy"
\* only to one above $5 billion, while the sell labels follow from the
\* technical score alone, whatever the market cap.
C28_LowRiskBuysNeedMarketCap ==
    LowRiskCmcRecommendation =>
        LET label == cmc_recommendation.recommendation
            cap == cmc_recommendation.market_metrics.market_cap
            t == cmc_recommendation.technical_score
        IN  /\ label \in {"Strong Buy", "Buy"} => cap > LowCapThreshold
            /\ label = "Mild Buy" => cap > ModerateCapThreshold
            /\ t <= -6 => label = "Strong Sell"
            /\ t > -6 /\ t <= -4 => label = "Sell"
            /\ t > -4 /\ t <= -2 => label = "Mild Sell"

\* a technical score of 6 on a $20 billion market cap was held back to
\* "Mild Buy" for a low risk tolerance
C28_Witness ==
    /\ LowRiskCmcRecommendation
    /\ cmc_recommendation.technical_score = 6
    /\ cmc_recommendation.market_metrics.market_cap = 20
    /\ cmc_recommendation.recommendation = "Mild Buy"

(***************************************************************************)
(* Claims about the rankings of compare_cryptos.                           *)
(***************************************************************************)
\* compare_cryptos has returned its results dict
CryptoComparisonReturned ==
    kpc = "done" /\ fn = "compare_cryptos" /\ "performance_ranking" \in DOMAIN returned

\* the symbols of the batch whose analysis came back as a dict
AnalysedSymbols ==
    {symbols[i] : i \in {j \in 1..Len(symbols) : outcome[symbols[j]].kind = "ok"}}

\* xs holds every element of S once and nothing else
IsPermutationOf(xs, S) ==
    /\ {xs[i] : i \in 1..Len(xs)} = S
    /\ Len(xs) = Cardinality(S)

\* C29: performance_ranking and volatility_ranking of compare_cryptos each
\* hold exactly the successfully analysed symbols, once each, the first by
\* descending period change and the second by ascending volatility.
C29_RankingsArePermutations ==
    CryptoComparisonReturned =>
        LET perf == returned.performance_ranking
            vola == returned.volatility_ranking
        IN  /\ IsPermutationOf(perf, AnalysedSymbols)
            /\ IsPermutationOf(vola, AnalysedSymbols)
            /\ \A i, j \in 1..Len(perf) :
                  i < j => outcome[perf[i]].period_change_pct
                              >= outcome[perf[j]].period_change_pct
            /\ \A i, j \in 1..Len(vola) :
                  i < j => outcome[vola[i]].volatility_annual
                              <= outcome[vola[j]].volatility_annual

\* three symbols were asked for, one failed, and the two others came back in
\* an order that is neither the order asked for nor the same in both rankings
C29_Witness ==
    /\ CryptoComparisonReturned
    /\ Len(symbols) = 3
    /\ Cardinality(AnalysedSymbols) = 2
    /\ returned.performance_ranking # returned.volatility_ranking
    /\ returned.performance_ranking # OrderedKeys(performance_data)

(***************************************************************************)
(* Claims about the alarm of run_with_timeout.                             *)
(***************************************************************************)
\* run_with_timeout was entered on the signal path and has returned or raised
SignalPathLeft == cpc = "done" /\ ~is_windows /\ response.status # 400

\* C30: on the signal-alarm path, whenever run_with_timeout has returned or
\* raised, no alarm it armed is still pending: it was cancelled by
\* signal.alarm(0) or has already gone off.
C30_AlarmCancelledOnExit == SignalPathLeft => alarm # "armed"

\* the agent was called, answered in time, and run_with_timeout returned its
\* value with the alarm switched off
C30_Witness ==
    /\ SignalPathLeft
    /\ agentQueries # <<>>
    /\ response.status = 200
    /\ alarm = "off"

====
